---------------------------- MODULE Spec2Model ----------------------------
(***************************************************************************)
(* A model of the survey bot's research agent (examples/cis/bot/llm.js)    *)
(* and of its search tool (the search module at the end of                 *)
(* examples/cis/bot/index.js).                                             *)
(*                                                                         *)
(* Text is modelled as a sequence of lexical tokens.  A token is a record  *)
(* [t, w]: t is the token kind and w the word it carries.  The characters  *)
(* of a word are not modelled; its length (WordLen) and the brace          *)
(* characters it contains (WordBraces) are, because the code depends on    *)
(* them (slice(0, 1500), the brace walk of _parseJsonCommand).             *)
(* The JSON grammar modelled is: a flat object whose member values are     *)
(* strings, numbers or literals, or a single such value.                   *)
(***************************************************************************)
EXTENDS Integers, Sequences, FiniteSets, TLC

\* ------------------------------------------------------------------ bounds

\* The largest maxResearchSteps a configuration is given.
MaxSteps == 2

\* The largest number of results one search returns (maxResults).
MaxResults == 1

\* --------------------------------------------------------------- constants

\* research() cuts every value it returns to this many characters.
SUMMARY_MAX == 1500

\* ------------------------------------------------------------------ tokens

Tok(t, w) == [t |-> t, w |-> w]
LB     == Tok("{", "")
RB     == Tok("}", "")
COLON  == Tok(":", "")
COMMA  == Tok(",", "")
WS     == Tok("ws", "")
FENCE  == Tok("fence", "")          \* three backticks
TAG    == Tok("tag", "json")        \* the word json right after a fence
STR(w) == Tok("str", w)             \* a JSON string literal, quotes included
NUM(w) == Tok("num", w)             \* a JSON number literal, w its digits
PROSE(w) == Tok("prose", w)         \* a run of text without double quotes
LIT(w) == Tok("lit", w)             \* true, false, null

\* The number of characters of a word.
WordLen(w) ==
  CASE w = ""        -> 0
    [] w = "5"       -> 1
    [] w = "q"       -> 1
    [] w = "u"       -> 1
    [] w = "a}b"     -> 3
    [] w = ":-}"     -> 3
    [] w = "or"      -> 2
    [] w = "true"    -> 4
    [] w = "false"   -> 5
    [] w = "label"   -> 5
    [] w = "padded"  -> 6
    [] w = " padded " -> 8
    [] w = "wantsImage" -> 10
    [] w = "Add dark mode" -> 13
    [] w = "ok here's one:" -> 14
    [] w = "imageDescription" -> 16
    [] w = "headline" -> 120
    [] w = "url"     -> 3
    [] w = "read"    -> 4
    [] w = "done"    -> 4
    [] w = "json"    -> 4
    [] w = "query"   -> 5
    [] w = "dance"   -> 5
    [] w = "brief"   -> 5
    [] w = "action"  -> 6
    [] w = "search"  -> 6
    [] w = "summary" -> 7
    [] w = "I think" -> 7
    [] w = "undefined" -> 9
    [] w = "[object Object]" -> 15
    [] w = "report"  -> SUMMARY_MAX + 100
    [] w = "essay"   -> SUMMARY_MAX + 200
    [] OTHER         -> 8

\* The brace characters inside a word, in order.
WordBraces(w) == IF w \in {"a}b", ":-}"} THEN <<"}">> ELSE <<>>

Min(a, b) == IF a <= b THEN a ELSE b

TokLen(tok) ==
  CASE tok.t \in {"{", "}", ":", ",", "ws"} -> 1
    [] tok.t = "fence" -> 3
    [] tok.t = "str"   -> WordLen(tok.w) + 2
    [] OTHER           -> WordLen(tok.w)

RECURSIVE TextLen(_)
TextLen(text) ==
  IF text = <<>> THEN 0 ELSE TokLen(Head(text)) + TextLen(Tail(text))

\* ------------------------------------------------------------ JS strings
\* A string value the program computes: where its characters come from
\* (a word, or a text) and how many of them it keeps (a prefix).

FromWord(w)    == [kind |-> "word", w |-> w, toks |-> <<>>, len |-> WordLen(w)]
FromText(text) == [kind |-> "text", w |-> "", toks |-> text, len |-> TextLen(text)]
EmptyString    == FromWord("")

SliceNothing(s, n) == s

\* String.prototype.slice(0, n)
Slice(s, n) == [s EXCEPT !.len = Min(s.len, n)]

\* ------------------------------------------------------------- JS values
\* k: "str", "num", "lit" (true, false, null), "obj", "undef".
\* f: the members of an object, in source order, as [key, val] records.

Value(k, w, f) == [k |-> k, w |-> w, f |-> f]
Undefined == Value("undef", "", <<>>)

Truthy(v) ==
  CASE v.k = "str" -> v.w # ""
    [] v.k = "num" -> v.w # "0"
    [] v.k = "lit" -> v.w = "true"
    [] v.k = "obj" -> TRUE
    [] OTHER       -> FALSE

\* obj.key: the last member of that name wins, as in JSON.parse.
Get(v, key) ==
  IF v.k # "obj" THEN Undefined
  ELSE LET hits == {i \in 1..Len(v.f) : v.f[i].key = key}
       IN IF hits = {} THEN Undefined
          ELSE v.f[CHOOSE i \in hits : \A j \in hits : j <= i].val

\* String(v)
JsString(v) ==
  CASE v.k = "str" -> FromWord(v.w)
    [] v.k = "num" -> FromWord(v.w)
    [] v.k = "lit" -> FromWord(v.w)
    [] v.k = "obj" -> FromWord("[object Object]")
    [] OTHER       -> FromWord("undefined")

\* Whether v has a method slice: strings do, numbers, literals and plain
\* objects do not (calling it is a TypeError).
HasSlice(v) == v.k = "str"

\* ------------------------------------------------------------ JSON.parse

NoWs(text) == SelectSeq(text, LAMBDA tok : tok.t # "ws")

IsPrimTok(tok) == tok.t \in {"str", "num", "lit"}
PrimValue(tok) == Value(tok.t, tok.w, <<>>)

\* The tokens between the braces are groups  STR : value  separated by commas.
MembersOk(inner) ==
  \/ inner = <<>>
  \/ /\ Len(inner) % 4 = 3
     /\ \A i \in 1..Len(inner) :
          CASE i % 4 = 1 -> inner[i].t = "str"
            [] i % 4 = 2 -> inner[i] = COLON
            [] i % 4 = 3 -> IsPrimTok(inner[i])
            [] OTHER     -> inner[i] = COMMA

Members(inner) ==
  [j \in 1..((Len(inner) + 1) \div 4) |->
     [key |-> inner[4 * j - 3].w, val |-> PrimValue(inner[4 * j - 1])]]

\* JSON.parse(text): [ok |-> FALSE] stands for the SyntaxError it throws.
JsonParse(text) ==
  LET T == NoWs(text)
  IN IF Len(T) = 1 /\ IsPrimTok(T[1])
       THEN [ok |-> TRUE, v |-> PrimValue(T[1])]
     ELSE IF Len(T) >= 2 /\ T[1] = LB /\ T[Len(T)] = RB
             /\ MembersOk(SubSeq(T, 2, Len(T) - 1))
       THEN [ok |-> TRUE,
             v |-> Value("obj", "", Members(SubSeq(T, 2, Len(T) - 1)))]
     ELSE [ok |-> FALSE, v |-> Undefined]

\* ----------------------------------------------------- _parseJsonCommand

RECURSIVE DropWs(_)
DropWs(text) ==
  IF text # <<>> /\ Head(text).t = "ws" THEN DropWs(Tail(text)) ELSE text

Reverse(text) == [i \in 1..Len(text) |-> text[Len(text) + 1 - i]]

\* String.prototype.trim()
Trim(text) == Reverse(DropWs(Reverse(DropWs(text))))

\* text.replace(/```(?:json)?\s*/gi, "").replace(/```/g, ""): every fence
\* goes, with the json tag and the white space that follow it.
RECURSIVE StripFences(_)
StripFences(text) ==
  IF text = <<>> THEN <<>>
  ELSE IF Head(text).t = "fence"
    THEN LET r == Tail(text)
             r2 == IF r # <<>> /\ Head(r).t = "tag" THEN Tail(r) ELSE r
         IN StripFences(DropWs(r2))
    ELSE <<Head(text)>> \o StripFences(Tail(text))

\* The brace characters of one token, in order.
TokBraces(tok) ==
  CASE tok.t = "{" -> <<"{">>
    [] tok.t = "}" -> <<"}">>
    [] tok.t \in {"str", "prose"} -> WordBraces(tok.w)
    [] OTHER -> <<>>

\* /\{[^{}]*"action"\s*:\s*"[^"]+"/ matches from the brace at position p:
\* no brace up to a string "action", then a colon, then a non-empty string.
ActionMatchAt(text, p) ==
  /\ text[p] = LB
  /\ \E q \in (p + 1)..Len(text) :
       /\ \A i \in (p + 1)..(q - 1) : TokBraces(text[i]) = <<>>
       /\ text[q] = STR("action")
       /\ LET rest == DropWs(SubSeq(text, q + 1, Len(text)))
          IN /\ rest # <<>> /\ Head(rest) = COLON
             /\ LET val == DropWs(Tail(rest))
                IN val # <<>> /\ Head(val).t = "str" /\ Head(val).w # ""

Deltas(braces) == [i \in 1..Len(braces) |-> IF braces[i] = "{" THEN 1 ELSE -1]

RECURSIVE SumSeq(_)
SumSeq(s) == IF s = <<>> THEN 0 ELSE Head(s) + SumSeq(Tail(s))

\* The depth after each brace character of the tokens start..i.
RECURSIVE BraceChars(_, _, _)
BraceChars(text, start, i) ==
  IF i < start THEN <<>>
  ELSE BraceChars(text, start, i - 1) \o TokBraces(text[i])

DepthZeroWithin(braces) ==
  \E n \in 1..Len(braces) : SumSeq(Deltas(SubSeq(braces, 1, n))) = 0

\* The walk "for (let i = start; ...) depth++ / depth-- / if (depth === 0)":
\* the first token at which the depth is back to 0, or 0 when there is none.
BalancedEnd(text, start) ==
  LET ends == {i \in start..Len(text) :
                 DepthZeroWithin(BraceChars(text, start, i))}
  IN IF ends = {} THEN 0 ELSE CHOOSE i \in ends : \A j \in ends : i <= j

\* Whether the depth is back to 0 exactly on the closing brace token i (and
\* not inside a string of it): only then is the slice whole tokens.
EndsOnBrace(text, start, i) ==
  /\ text[i] = RB
  /\ SumSeq(Deltas(BraceChars(text, start, i))) = 0

Null == [isNull |-> TRUE, v |-> Undefined]
Cmd(v) == [isNull |-> FALSE, v |-> v]

ParseAnywhere(cleaned) ==
  LET starts == {p \in 1..Len(cleaned) : ActionMatchAt(cleaned, p)}
  IN IF starts = {} THEN Null
     ELSE LET start == CHOOSE p \in starts : \A r \in starts : p <= r
              end == BalancedEnd(cleaned, start)
          IN IF end = 0 \/ ~EndsOnBrace(cleaned, start, end) THEN Null
             ELSE LET got == JsonParse(SubSeq(cleaned, start, end))
                  IN IF got.ok THEN Cmd(got.v) ELSE Null

_parseJsonCommand(text) ==
  IF text = <<>> THEN Null
  ELSE LET cleaned == Trim(StripFences(text))
           full == JsonParse(cleaned)
       IN IF full.ok /\ Truthy(full.v) /\ Truthy(Get(full.v, "action"))
            THEN Cmd(full.v)
          ELSE ParseAnywhere(cleaned)

\* research()'s parse of the last reply: finalResp.match(/\{[\s\S]*\}/) is
\* the text from its first "{" character to its last "}" character.
TokensWith(text, ch) ==
  {i \in 1..Len(text) : \E n \in 1..Len(TokBraces(text[i])) :
                           TokBraces(text[i])[n] = ch}

GreedyObject(text) ==
  LET opens == TokensWith(text, "{")
      closes == TokensWith(text, "}")
  IN IF opens = {} \/ closes = {} THEN [found |-> FALSE, ok |-> FALSE, v |-> Undefined]
     ELSE LET p == CHOOSE i \in opens : \A j \in opens : i <= j
              q == CHOOSE i \in closes : \A j \in closes : j <= i
          IN IF q < p THEN [found |-> FALSE, ok |-> FALSE, v |-> Undefined]
             ELSE IF text[p] # LB \/ text[q] # RB
               THEN [found |-> TRUE, ok |-> FALSE, v |-> Undefined]
             ELSE LET got == JsonParse(SubSeq(text, p, q))
                  IN [found |-> TRUE, ok |-> got.ok, v |-> got.v]

\* ---------------------------------------------------------- model replies
\* The texts the chat model is taken to answer with.

Object1(k1, v1) == <<LB, STR(k1), COLON, v1, RB>>
Object2(k1, v1, k2, v2) ==
  <<LB, STR(k1), COLON, v1, COMMA, STR(k2), COLON, v2, RB>>

SearchCmd    == Object2("action", STR("search"), "query", STR("q"))
ReadCmd      == Object2("action", STR("read"), "url", STR("u"))
ReadNumUrl   == Object2("action", STR("read"), "url", NUM("5"))
DoneBrief    == Object2("action", STR("done"), "summary", STR("brief"))
DoneReport   == Object2("action", STR("done"), "summary", STR("report"))
DoneBare     == Object1("action", STR("done"))
DanceCmd     == Object1("action", STR("dance"))
SummaryOnly  == Object1("summary", STR("brief"))
ProseReply   == <<PROSE("I think")>>
EssayReply   == <<PROSE("essay")>>
FencedSearch == <<FENCE, TAG, WS>> \o SearchCmd \o <<WS, FENCE>>
ProseThenDone == <<PROSE("I think"), WS>> \o DoneBrief
EmptyReply   == <<>>

Replies ==
  {SearchCmd, ReadCmd, ReadNumUrl, DoneBrief, DoneReport, DoneBare, DanceCmd,
   SummaryOnly, ProseReply, EssayReply, FencedSearch, ProseThenDone, EmptyReply}

\* What fetchPage hands back: page text, or one of its placeholders.
PageOutcomes == {"page", "not ok", "network error", "timeout"}

\* fetchPage(pageUrl), by what the request came to (index.js 396-428): every
\* outcome is a text, the failures a placeholder.
fetchPage(outcome) ==
  CASE outcome = "page" -> <<PROSE("page text")>>
    [] outcome = "not ok" -> <<PROSE("(Failed to fetch: 404)")>>
    [] outcome \in {"network error", "timeout"} ->
         <<PROSE("(Error reading page: ...)")>>

PageContents == {fetchPage(outcome) : outcome \in PageOutcomes}

\* What search hands back to research(): no result (also when it failed),
\* or some.
SearchOutcomes == {<<>>, <<"result">>}

----------------------------------------------------------------------------
\* --------------------------------------------------------- research agent

VARIABLES
  maxResearchSteps, \* createLLM's option
  canSearch,        \* !!searchTools
  dfn,              \* the decision function running: chooseVote, suggestOption
  dpc,              \* where the decision function is
  rpc,              \* where research() is
  step,             \* the loop variable of research()
  messages,         \* research()'s conversation
  response,         \* research()'s local variable response
  finalResp,        \* research()'s local variable finalResp
  result,           \* what research() returned
  calls,            \* every external call issued so far, in order
  outstanding,      \* external calls issued and not yet returned
  gaveUp,           \* the loop met an unknown action (break)
  error             \* the exception research() threw, if any

researchVars ==
  <<maxResearchSteps, canSearch, dfn, dpc, rpc, step, messages, response,
    finalResp, result, calls, outstanding, gaveUp, error>>

VARIABLES
  clock,         \* Date.now()
  lastSearchMs,  \* the tool's pacing timestamp
  spc,           \* per caller: where its search() call is
  wakeAt,        \* per caller: when the sleep it awaits is due
  attempt,       \* per caller: braveSearch's loop variable
  squery,        \* per caller: the query of its call
  sret,          \* per caller: what its last call returned (result count)
  sstatus,       \* per caller: how the last request of its call was answered
  ncalls,        \* the calls of search() made so far
  lastBegin,     \* when a call last passed the pacing wait and sent its
                 \* first request (-1: none has)
  beginGap,      \* the time between the last two such moments (-1: none)
  lastRequest,   \* when a request was last sent (-1: none was)
  requestGap,    \* the time between the last two requests (-1: none)
  nrequests      \* per caller: the requests its current call has sent

searchVars ==
  <<clock, lastSearchMs, spc, wakeAt, attempt, squery, sret, sstatus, ncalls,
    lastBegin, beginGap, lastRequest, requestGap, nrequests>>

VARIABLES
  options,    \* chooseVote's argument: the options, each with key and label
  vpc,        \* where the vote is: idle, chat, returned
  voteReply,  \* what chat() returned to chooseVote
  vote        \* what chooseVote returned

voteVars == <<options, vpc, voteReply, vote>>

VARIABLES
  llmConfig,          \* createLLM's options provider and imageProvider
  renderProvider,     \* createLLM: renderProvider
  imgBackend,         \* createLLM: imgPreset.imageBackend
  canGenerateImages,  \* createLLM: imgPreset.supportsImages && !!imgModel
  imageStoreURL,      \* createLLM's option: set or not
  ipc,                \* where generateImage() is
  imgResult,          \* what generateImage() returned
  imgRequests,        \* the calls of generateImage() and the requests they
                      \* sent, in order
  imgOutcome,         \* how the last request of the current call was answered
  imgRender           \* the images.generate request of the current call:
                      \* the client it went to and its prompt

imageVars ==
  <<llmConfig, renderProvider, imgBackend, canGenerateImages, imageStoreURL,
    ipc, imgResult, imgRequests, imgOutcome, imgRender>>

VARIABLES
  sugImpl,     \* which suggestOption: llm.js (cis) or server.js (falling-sands)
  sugPc,       \* where suggestOption() is: idle, chat, returned, raised
  sugReply,    \* what chat() returned to suggestOption
  suggestion,  \* what suggestOption returned
  sugError     \* the exception suggestOption threw, if any

suggestVars == <<sugImpl, sugPc, sugReply, suggestion, sugError>>

VARIABLES
  cmdText,     \* the JSON text of a command object
  wrapping,    \* what a reply puts around it
  parsedSet,   \* which of the two texts _parseJsonCommand has been given
  cmdWrapped,  \* what it returned for the reply
  cmdBare      \* what it returned for the command text alone

parseVars == <<cmdText, wrapping, parsedSet, cmdWrapped, cmdBare>>

VARIABLES
  conv,     \* per run: the array messages of its invocation of research()
  runPc,    \* per run: where it is: idle, chat, search, returned
  runStep   \* per run: its loop variable step

runVars == <<conv, runPc, runStep>>

VARIABLES
  pagePc,     \* where fetchPage() is: idle, fetching, returned
  pageText,   \* the length of the readable text of the page it was sent
  pageResult  \* what it returned: its kind, its length, whether it ends
              \* with the truncation marker

pageVars == <<pagePc, pageText, pageResult>>

VARIABLES
  cycle,     \* the poll cycles main() has started
  botPc,     \* where the bot is: asleep, or at a call of runOnce it awaits
  cur,       \* runOnce: the index of the survey of the loop
  txs,       \* runOnce: the transactions fetched at its start; per survey,
             \* what they hold of the bot
  surveyResults,  \* runOnce: results, of the survey of the loop
  refetched, \* the list the second fetch of the loop body returned, if any
  sent,      \* per survey: the add_option transactions the bot submitted
  seen,      \* per survey: how many of them the node lists by now
  votes,     \* per survey: the choices of the vote transactions it submitted
  votesSeen, \* per survey: how many of them the node lists by now
  botClock,  \* Date.now(), in seconds
  lastVoteConsideredAt,  \* the Map of line 54, 0 for a survey without entry
  voting,    \* considerVoting: its now and chosenKey, how many calls of
             \* chooseVote and vote transactions its last call made, and
             \* whether chooseVote returned
  failedRevote,  \* per survey: the last cycle in which chooseVote threw
                 \* while the results held a vote of the bot, or 0
  botError   \* the last exception caught in runOnce or main

botVars ==
  <<cycle, botPc, cur, txs, surveyResults, refetched, sent, seen, votes,
    votesSeen, botClock, lastVoteConsideredAt, voting, failedRevote,
    botError>>

VARIABLES
  isNative,   \* window.usernode.isNative
  pending,    \* the ids that have an entry in window.__usernodeBridge.pending
  made,       \* the calls of callNative so far; call n has the id n
  promises,   \* per call: the state of the promise callNative returned
  settlings,  \* per call: how often that promise changed its state
  posted,     \* the ids of the messages window.Usernode.postMessage took
  resolves,   \* the calls of __usernodeResolve so far
  lastResolve \* the id and error of the last of them

bridgeVars ==
  <<isNative, pending, made, promises, settlings, posted, resolves,
    lastResolve>>

\* What the steps of one component leave alone.
others ==
  <<voteVars, imageVars, suggestVars, parseVars, pageVars, botVars,
    bridgeVars>>
besidesResearch == <<searchVars, runVars, others>>
besidesSearch == <<researchVars, runVars, others>>
besidesVote ==
  <<researchVars, searchVars, runVars, imageVars, suggestVars, parseVars,
    pageVars, botVars, bridgeVars>>
besidesImage ==
  <<researchVars, searchVars, runVars, voteVars, suggestVars, parseVars,
    pageVars, botVars, bridgeVars>>
besidesSuggest ==
  <<researchVars, searchVars, runVars, voteVars, imageVars, parseVars,
    pageVars, botVars, bridgeVars>>
besidesParse ==
  <<researchVars, searchVars, runVars, voteVars, imageVars, suggestVars,
    pageVars, botVars, bridgeVars>>
besidesRuns == <<researchVars, others>>
besidesPage ==
  <<researchVars, searchVars, runVars, voteVars, imageVars, suggestVars,
    parseVars, botVars, bridgeVars>>
besidesBot ==
  <<researchVars, searchVars, runVars, voteVars, imageVars, suggestVars,
    parseVars, pageVars, bridgeVars>>
besidesBridge ==
  <<researchVars, searchVars, runVars, voteVars, imageVars, suggestVars,
    parseVars, pageVars, botVars>>

Message(role, kind, body) == [role |-> role, kind |-> kind, body |-> body]
Call(kind, arg) == [kind |-> kind, arg |-> arg]

\* The call log is a history of the run; it stops growing at CallLogCap
\* entries, which a run never reaches (it issues at most 2 * N + 3 calls).
CallLogCap == 2 * MaxSteps + 6
Log(log, call) == IF Len(log) < CallLogCap THEN Append(log, call) ELSE log

\* chatMultiTurn / chat: (resp.choices[0].message.content || "").trim()
ChatText(content) == Trim(content)

\* formatSearchResults(results)
formatSearchResults(results) ==
  IF results = <<>> THEN <<PROSE("(no results)")>>
  ELSE [i \in 1..Len(results) |-> PROSE("result line")]

InitResearch ==
  /\ maxResearchSteps \in 0..MaxSteps
  /\ canSearch \in BOOLEAN
  /\ dfn = "none"
  /\ dpc = "idle"
  /\ rpc = "idle"
  /\ step = 0
  /\ messages = <<>>
  /\ response = <<>>
  /\ finalResp = <<>>
  /\ result = EmptyString
  /\ calls = <<>>
  /\ outstanding = 0
  /\ gaveUp = FALSE
  /\ error = "none"

\* research() returns res; the decision function goes on to its own
\* completion call.  n: the calls outstanding when research() returns.
Return(res, log, n) ==
  /\ rpc' = "returned"
  /\ result' = res
  /\ dpc' = "chat"
  /\ calls' = Log(log, Call("chat_decision", ""))
  /\ outstanding' = n + 1
  /\ UNCHANGED error

\* research() throws e; the decision function, which has no handler, throws.
Raise(e, log, n) ==
  /\ rpc' = "raised"
  /\ dpc' = "raised"
  /\ error' = e
  /\ calls' = log
  /\ outstanding' = n
  /\ UNCHANGED result

ForceDropsHistory(msgs, log, n) ==
  /\ messages' = <<msgs[1], msgs[2], Message("user", "force", <<>>)>>
  /\ rpc' = "final_chat"
  /\ calls' = Log(log, Call("chat_final", ""))
  /\ outstanding' = n + 1
  /\ dpc' = "research"
  /\ UNCHANGED <<result, error>>

\* After the loop: the forcing message and the last completion request.
Force(msgs, log, n) ==
  /\ messages' = Append(msgs, Message("user", "force", <<>>))
  /\ rpc' = "final_chat"
  /\ calls' = Log(log, Call("chat_final", ""))
  /\ outstanding' = n + 1
  /\ dpc' = "research"
  /\ UNCHANGED <<result, error>>

LoopContinuesOffByOne(s) == s <= maxResearchSteps

\* The loop condition step < maxResearchSteps.
LoopContinues(s) == s < maxResearchSteps

LoopHeadDoWhile(s, msgs, log, n) ==
  IF s = 0 \/ LoopContinues(s)
    THEN /\ messages' = msgs
         /\ rpc' = "loop_chat"
         /\ calls' = Log(log, Call("chat_loop", ""))
         /\ outstanding' = n + 1
         /\ dpc' = "research"
         /\ UNCHANGED <<result, error>>
    ELSE Force(msgs, log, n)

\* The head of the for loop, with the loop variable at s.
LoopHead(s, msgs, log, n) ==
  IF LoopContinues(s)
    THEN /\ messages' = msgs
         /\ rpc' = "loop_chat"
         /\ calls' = Log(log, Call("chat_loop", ""))
         /\ outstanding' = n + 1
         /\ dpc' = "research"
         /\ UNCHANGED <<result, error>>
    ELSE Force(msgs, log, n)

StartDecisionAlwaysResearch(fn) ==
  /\ UNCHANGED besidesResearch
  /\ dpc = "idle"
  /\ dfn' = fn
  /\ step' = 0
  /\ UNCHANGED <<maxResearchSteps, canSearch, response, finalResp, gaveUp>>
  /\ LoopHead(0,
              <<Message("system", "system", <<>>),
                Message("user", "topic", <<>>)>>,
              calls, outstanding)

\* chooseVote / suggestOption is called and calls research(topic).
StartDecision(fn) ==
  /\ UNCHANGED besidesResearch
  /\ dpc = "idle"
  /\ dfn' = fn
  /\ step' = 0
  /\ UNCHANGED <<maxResearchSteps, canSearch, response, finalResp, gaveUp>>
  /\ IF ~canSearch
       THEN /\ messages' = messages
            /\ Return(EmptyString, calls, outstanding)
       ELSE LoopHead(0,
                     <<Message("system", "system", <<>>),
                       Message("user", "topic", <<>>)>>,
                     calls, outstanding)

\* The value of  a || b.
OrElse(a, b) == IF Truthy(a) THEN a ELSE b

EmptyStr == Value("str", "", <<>>)

\* The branches of the loop body after the reply was parsed (llm.js 274-302).
\* msgs, log: the conversation and the call log so far; n: the calls
\* outstanding once the completion has returned.

OnNoCommandForces(resp, msgs, log, n) ==
  /\ Force(msgs, log, n)
  /\ UNCHANGED <<step, gaveUp>>

\* if (!cmd || !cmd.action) return response.slice(0, 1500)
OnNoCommand(resp, msgs, log, n) ==
  /\ messages' = msgs
  /\ Return(Slice(FromText(resp), SUMMARY_MAX), log, n)
  /\ UNCHANGED <<step, gaveUp>>

\* return String(cmd.summary || response).slice(0, 1500)
DoneSummary(cmd, resp) ==
  LET summary == Get(cmd.v, "summary")
  IN Slice(IF Truthy(summary) THEN JsString(summary) ELSE FromText(resp),
           SUMMARY_MAX)

OnDone(cmd, resp, msgs, log, n) ==
  /\ messages' = msgs
  /\ Return(DoneSummary(cmd, resp), log, n)
  /\ UNCHANGED <<step, gaveUp>>

OnSearchNoAwait(cmd, msgs, log, n) ==
  LET query == Get(cmd.v, "query")
  IN /\ step' = step + 1
     /\ LoopHead(step + 1,
                 Append(msgs, Message("user", "results", <<>>)),
                 Log(log, Call("search",
                               IF Truthy(query) THEN query.w ELSE "topic")),
                 n + 1)
     /\ UNCHANGED gaveUp

\* const results = await searchTools.search(cmd.query || topic)
OnSearch(cmd, msgs, log, n) ==
  LET query == Get(cmd.v, "query")
  IN /\ messages' = msgs
     /\ rpc' = "search"
     /\ calls' = Log(log, Call("search",
                                IF Truthy(query) THEN query.w ELSE "topic"))
     /\ outstanding' = n + 1
     /\ dpc' = "research"
     /\ UNCHANGED <<step, gaveUp, result, error>>

\* (cmd.url || "").slice(0, 60) in the log line, then
\* const content = await searchTools.fetchPage(cmd.url || "")
OnRead(cmd, msgs, log, n) ==
  LET url == OrElse(Get(cmd.v, "url"), EmptyStr)
  IN IF ~HasSlice(url)
       THEN /\ messages' = msgs
            /\ Raise("TypeError", log, n)
            /\ UNCHANGED <<step, gaveUp>>
       ELSE /\ messages' = msgs
            /\ rpc' = "read"
            /\ calls' = Log(log, Call("fetchPage", url.w))
            /\ outstanding' = n + 1
            /\ dpc' = "research"
            /\ UNCHANGED <<step, gaveUp, result, error>>

OnUnknownContinue(msgs, log, n) ==
  /\ gaveUp' = TRUE
  /\ step' = step + 1
  /\ LoopHead(step + 1, msgs, log, n)

\* else { ... break; } and the code after the loop
OnUnknown(msgs, log, n) ==
  /\ gaveUp' = TRUE
  /\ Force(msgs, log, n)
  /\ UNCHANGED step

IsAction(cmd, name) ==
  LET action == Get(cmd.v, "action")
  IN action.k = "str" /\ action.w = name

Dispatch(cmd, resp, msgs, log, n) ==
  IF cmd.isNull \/ ~Truthy(Get(cmd.v, "action"))
    THEN OnNoCommand(resp, msgs, log, n)
  ELSE IF IsAction(cmd, "done")   THEN OnDone(cmd, resp, msgs, log, n)
  ELSE IF IsAction(cmd, "search") THEN OnSearch(cmd, msgs, log, n)
  ELSE IF IsAction(cmd, "read")   THEN OnRead(cmd, msgs, log, n)
  ELSE OnUnknown(msgs, log, n)

NeedsNudgeAnyStep(cmd, s) == cmd.isNull

\* Whether the reply of this step gets the format nudge: !cmd && step === 0
NeedsNudge(cmd, s) == cmd.isNull /\ s = 0

\* The completion of a loop turn returns (llm.js 255-302).
ChatReturns(content) ==
  /\ UNCHANGED besidesResearch
  /\ rpc = "loop_chat"
  /\ LET resp == ChatText(content)
         msgs == Append(messages, Message("assistant", "reply", resp))
         cmd == _parseJsonCommand(resp)
     IN /\ response' = resp
        /\ IF NeedsNudge(cmd, step)
             THEN /\ messages' = Append(msgs, Message("user", "nudge", <<>>))
                  /\ rpc' = "nudge_chat"
                  /\ calls' = Log(calls, Call("chat_nudge", ""))
                  /\ outstanding' = (outstanding - 1) + 1
                  /\ UNCHANGED <<step, gaveUp, result, dpc, error>>
             ELSE Dispatch(cmd, resp, msgs, calls, outstanding - 1)
  /\ UNCHANGED <<maxResearchSteps, canSearch, dfn, finalResp>>

\* The completion asked for after the nudge returns (llm.js 269-302).
NudgeReturns(content) ==
  /\ UNCHANGED besidesResearch
  /\ rpc = "nudge_chat"
  /\ LET resp == ChatText(content)
         msgs == Append(messages, Message("assistant", "reply", resp))
     IN /\ response' = resp
        /\ Dispatch(_parseJsonCommand(resp), resp, msgs, calls, outstanding - 1)
  /\ UNCHANGED <<maxResearchSteps, canSearch, dfn, finalResp>>

NextStepStuck(s) == s

\* step++ at the end of a loop turn.
NextStep(s) == s + 1

SearchReturnsSilent(results) ==
  /\ UNCHANGED besidesResearch
  /\ rpc = "search"
  /\ step' = NextStep(step)
  /\ LoopHead(NextStep(step), messages, calls, outstanding - 1)
  /\ UNCHANGED <<maxResearchSteps, canSearch, dfn, response, finalResp, gaveUp>>

\* searchTools.search returns (llm.js 286-291, then the loop head).
SearchReturns(results) ==
  /\ UNCHANGED besidesResearch
  /\ rpc = "search"
  /\ step' = NextStep(step)
  /\ LoopHead(NextStep(step),
              Append(messages,
                     Message("user", "results", formatSearchResults(results))),
              calls, outstanding - 1)
  /\ UNCHANGED <<maxResearchSteps, canSearch, dfn, response, finalResp, gaveUp>>

FetchReturnsOrThrows(content) ==
  /\ UNCHANGED besidesResearch
  /\ rpc = "read"
  /\ IF content # fetchPage("page")
       THEN /\ Raise("FetchError", calls, outstanding - 1)
            /\ UNCHANGED <<step, messages>>
       ELSE /\ step' = NextStep(step)
            /\ LoopHead(NextStep(step),
                        Append(messages, Message("user", "page", content)),
                        calls, outstanding - 1)
  /\ UNCHANGED <<maxResearchSteps, canSearch, dfn, response, finalResp, gaveUp>>

\* searchTools.fetchPage returns (llm.js 294-298, then the loop head).
FetchReturns(content) ==
  /\ UNCHANGED besidesResearch
  /\ rpc = "read"
  /\ step' = NextStep(step)
  /\ LoopHead(NextStep(step),
              Append(messages, Message("user", "page", content)),
              calls, outstanding - 1)
  /\ UNCHANGED <<maxResearchSteps, canSearch, dfn, response, finalResp, gaveUp>>

FinalSummaryRawOnly(resp) == Slice(FromText(resp), SUMMARY_MAX)

\* What research() returns from the last reply (llm.js 311-316).
FinalSummary(resp) ==
  LET got == GreedyObject(resp)
      summary == Get(got.v, "summary")
  IN IF got.found /\ got.ok /\ Truthy(got.v) /\ Truthy(summary)
       THEN Slice(JsString(summary), SUMMARY_MAX)
       ELSE Slice(FromText(resp), SUMMARY_MAX)

FinalAsksAgain(content) ==
  /\ UNCHANGED besidesResearch
  /\ rpc = "final_chat"
  /\ finalResp' = ChatText(content)
  /\ IF Truthy(Get(GreedyObject(ChatText(content)).v, "summary"))
       THEN Return(FinalSummary(ChatText(content)), calls, outstanding - 1)
       ELSE UNCHANGED <<calls, rpc, dpc, result, outstanding, error>>
  /\ UNCHANGED <<maxResearchSteps, canSearch, dfn, step, messages, response,
                 gaveUp>>

\* The last completion returns (llm.js 310-316).
FinalReturns(content) ==
  /\ UNCHANGED besidesResearch
  /\ rpc = "final_chat"
  /\ finalResp' = ChatText(content)
  /\ Return(FinalSummary(ChatText(content)), calls, outstanding - 1)
  /\ UNCHANGED <<maxResearchSteps, canSearch, dfn, step, messages, response,
                 gaveUp>>

\* A completion of research() fails: chatMultiTurn throws and research()
\* has no handler.
ChatFails ==
  /\ UNCHANGED besidesResearch
  /\ rpc \in {"loop_chat", "nudge_chat", "final_chat"}
  /\ Raise("ProviderError", calls, outstanding - 1)
  /\ UNCHANGED <<maxResearchSteps, canSearch, dfn, step, messages, response,
                 finalResp, gaveUp>>

\* The decision function's own completion returns, or fails.
DecisionChatReturns ==
  /\ UNCHANGED besidesResearch
  /\ dpc = "chat"
  /\ dpc' = "returned"
  /\ outstanding' = outstanding - 1
  /\ UNCHANGED <<maxResearchSteps, canSearch, dfn, rpc, step, messages,
                 response, finalResp, result, calls, gaveUp, error>>

DecisionChatFails ==
  /\ UNCHANGED besidesResearch
  /\ dpc = "chat"
  /\ dpc' = "raised"
  /\ outstanding' = outstanding - 1
  /\ UNCHANGED <<maxResearchSteps, canSearch, dfn, rpc, step, messages,
                 response, finalResp, result, calls, gaveUp, error>>

NextResearch ==
  \/ \E fn \in {"chooseVote", "suggestOption"} : StartDecision(fn)
  \/ \E content \in Replies : ChatReturns(content)
  \/ \E content \in Replies : NudgeReturns(content)
  \/ \E results \in SearchOutcomes : SearchReturns(results)
  \/ \E content \in PageContents : FetchReturns(content)
  \/ \E content \in Replies : FinalReturns(content)
  \/ ChatFails
  \/ DecisionChatReturns
  \/ DecisionChatFails

----------------------------------------------------------------------------
\* ------------------------------------------------------------ search tool
\* createSearchTools().search and braveSearch, called by several research
\* runs (callers) of one process.  Time is Date.now() in milliseconds.

MAX_RETRIES == 3
BASE_DELAY_MS == 1200
MAX_QUERY_LEN == 300

\* The research runs that share one Search Tool instance.
Callers == {"runA", "runB"}

\* The calls of search() they make together.
MaxSearches == 3

\* The clock advances by TickMs at a time, MaxTicks times at most.
TickMs == BASE_DELAY_MS \div 2
MaxTicks == 6

\* Date.now() when the tool is created (any time after BASE_DELAY_MS).
StartMs == 10 * BASE_DELAY_MS

\* The queries handed to search(): texts, or a value that is no string.
NotAString == <<NUM("5")>>
URLTOK == Tok("url", "u")          \* https://... up to the next white space
PUNCT == Tok("punct", "")          \* a character outside [\w\s\-'",?!]
Queries ==
  {<<PROSE("q")>>, <<URLTOK>>, <<PROSE("q"), PUNCT, WS, URLTOK>>, NotAString}

RECURSIVE CollapseWs(_)
CollapseWs(text) ==
  IF Len(text) < 2 THEN text
  ELSE IF text[1].t = "ws" /\ text[2].t = "ws" THEN CollapseWs(Tail(text))
  ELSE <<Head(text)>> \o CollapseWs(Tail(text))

\* sanitizeQuery(raw): URLs go, other punctuation becomes a space, runs of
\* white space become one space, the ends are trimmed, 300 characters stay.
sanitizeQuery(raw) ==
  LET noUrl == SelectSeq(raw, LAMBDA tok : tok.t # "url")
      spaced == [i \in 1..Len(noUrl) |->
                   IF noUrl[i].t = "punct" THEN WS ELSE noUrl[i]]
  IN Slice(FromText(Trim(CollapseWs(spaced))), MAX_QUERY_LEN)

RECURSIVE Pow2(_)
Pow2(n) == IF n <= 0 THEN 1 ELSE 2 * Pow2(n - 1)

\* const wait = BASE_DELAY_MS * Math.pow(2, attempt - 1)
BackoffWait(att) == BASE_DELAY_MS * Pow2(att - 1)

InitSearch ==
  /\ clock = StartMs
  /\ lastSearchMs = 0
  /\ spc = [c \in Callers |-> "idle"]
  /\ wakeAt = [c \in Callers |-> 0]
  /\ attempt = [c \in Callers |-> 0]
  /\ squery = [c \in Callers |-> <<>>]
  /\ sret = [c \in Callers |-> 0]
  /\ sstatus = [c \in Callers |-> "none"]
  /\ ncalls = 0
  /\ lastBegin = -1
  /\ beginGap = -1
  /\ lastRequest = -1
  /\ requestGap = -1
  /\ nrequests = [c \in Callers |-> 0]

\* search() returns to its caller with k results.
SearchDone(c, k) ==
  /\ spc' = [spc EXCEPT ![c] = "idle"]
  /\ sret' = [sret EXCEPT ![c] = k]
  /\ wakeAt' = [wakeAt EXCEPT ![c] = 0]
  /\ attempt' = [attempt EXCEPT ![c] = 0]

\* A request goes out now: fetch(url, ...) in braveSearch.
SendRequest(c, nth) ==
  /\ lastRequest' = clock
  /\ requestGap' = IF lastRequest < 0 THEN -1 ELSE clock - lastRequest
  /\ nrequests' = [nrequests EXCEPT ![c] = nth]

NoRequest == UNCHANGED <<lastRequest, requestGap, nrequests>>

\* A call that returns before any request: no request counted for it.
NoneSent(c) ==
  /\ nrequests' = [nrequests EXCEPT ![c] = 0]
  /\ UNCHANGED <<lastRequest, requestGap, lastBegin, beginGap>>

\* The time written to the pacing timestamp once the wait is over.
PacingStamp(now) == now

\* lastSearchMs = Date.now(); return await braveSearch(query, ...), up to
\* the first request (index.js 449-450, 343-363).
Begin(c, q) ==
  /\ lastSearchMs' = PacingStamp(clock)
  /\ squery' = [squery EXCEPT ![c] = <<>>]
  /\ IF q = NotAString              \* raw.replace is not a function: caught
       THEN SearchDone(c, 0) /\ NoneSent(c)
     ELSE IF sanitizeQuery(q).len = 0
       THEN SearchDone(c, 0) /\ NoneSent(c)
     ELSE /\ spc' = [spc EXCEPT ![c] = "fetching"]
          /\ attempt' = [attempt EXCEPT ![c] = 0]
          /\ wakeAt' = [wakeAt EXCEPT ![c] = 0]
          /\ lastBegin' = clock
          /\ beginGap' = IF lastBegin < 0 THEN -1 ELSE clock - lastBegin
          /\ SendRequest(c, 1)
          /\ UNCHANGED sret

PacingWaitHalf(now, last) == (BASE_DELAY_MS - (now - last)) \div 2

\* How long a call arriving at now has to wait: BASE_DELAY_MS - elapsed
PacingWait(now, last) == BASE_DELAY_MS - (now - last)

\* search(q) is entered by a caller (index.js 442-450).
SearchCalled(c, q) ==
  /\ spc[c] = "idle"
  /\ ncalls < MaxSearches
  /\ ncalls' = ncalls + 1
  /\ sstatus' = [sstatus EXCEPT ![c] = "none"]
  /\ IF clock - lastSearchMs < BASE_DELAY_MS
       THEN /\ spc' = [spc EXCEPT ![c] = "pacing"]
            /\ squery' = [squery EXCEPT ![c] = q]
            /\ wakeAt' = [wakeAt EXCEPT ![c] =
                            clock + PacingWait(clock, lastSearchMs)]
            /\ nrequests' = [nrequests EXCEPT ![c] = 0]
            /\ UNCHANGED <<lastSearchMs, attempt, sret, lastBegin, beginGap,
                           lastRequest, requestGap>>
       ELSE Begin(c, q)
  /\ UNCHANGED clock

\* A caller calls search(q).
SearchCall(c, q) ==
  /\ UNCHANGED besidesSearch
  /\ SearchCalled(c, q)

\* The pacing sleep of a caller is over (index.js 447-450).
PacingWake(c) ==
  /\ UNCHANGED besidesSearch
  /\ spc[c] = "pacing"
  /\ clock >= wakeAt[c]
  /\ Begin(c, squery[c])
  /\ UNCHANGED <<clock, ncalls, sstatus>>

\* The responses of the search endpoint: a status with a result count, a
\* body that is no JSON, or no response at all (fetch rejects).
Responses ==
  {[status |-> 200, body |-> "json", n |-> n] : n \in 0..(MaxResults + 1)}
    \cup {[status |-> 200, body |-> "garbage", n |-> 1],
          [status |-> 429, body |-> "json", n |-> 1],
          [status |-> 500, body |-> "json", n |-> 1],
          [status |-> 0, body |-> "network error", n |-> 0]}

ShouldRetryWhileLimited(status, att) == status = 429

\* if (resp.status === 429 && attempt < MAX_RETRIES) continue
ShouldRetry(status, att) == status = 429 /\ att < MAX_RETRIES

\* How a request was answered: "ok" (2xx with a JSON body), "limited"
\* (429), "failed" (fetch rejects, another status, a body that is no JSON).
StatusClass(resp) ==
  IF resp.status = 429 THEN "limited"
  ELSE IF resp.status = 200 /\ resp.body = "json" THEN "ok"
  ELSE "failed"

RespondNoSlice(c, resp) ==
  /\ UNCHANGED besidesSearch
  /\ spc[c] = "fetching"
  /\ sstatus' = [sstatus EXCEPT ![c] = StatusClass(resp)]
  /\ IF ShouldRetry(resp.status, attempt[c])
       THEN /\ attempt' = [attempt EXCEPT ![c] = @ + 1]
            /\ spc' = [spc EXCEPT ![c] = "backoff"]
            /\ wakeAt' = [wakeAt EXCEPT ![c] = clock + BackoffWait(attempt[c] + 1)]
            /\ UNCHANGED sret
       ELSE SearchDone(c, resp.n)
  /\ NoRequest
  /\ UNCHANGED <<clock, lastSearchMs, squery, ncalls, lastBegin, beginGap>>

\* The request of a caller is answered (index.js 358-382, 451-454).
Respond(c, resp) ==
  /\ UNCHANGED besidesSearch
  /\ spc[c] = "fetching"
  /\ sstatus' = [sstatus EXCEPT ![c] = StatusClass(resp)]
  /\ IF resp.status = 0
       THEN SearchDone(c, 0)                      \* caught by search()
     ELSE IF ShouldRetry(resp.status, attempt[c])
       THEN /\ attempt' = [attempt EXCEPT ![c] = @ + 1]
            /\ spc' = [spc EXCEPT ![c] = "backoff"]
            /\ wakeAt' = [wakeAt EXCEPT ![c] = clock + BackoffWait(attempt[c] + 1)]
            /\ UNCHANGED sret
     ELSE IF resp.status # 200
       THEN SearchDone(c, 0)                      \* !resp.ok
     ELSE IF resp.body # "json"
       THEN SearchDone(c, 0)                      \* resp.json() throws
     ELSE SearchDone(c, Min(resp.n, MaxResults))  \* slice(0, maxResults)
  /\ NoRequest
  /\ UNCHANGED <<clock, lastSearchMs, squery, ncalls, lastBegin, beginGap>>

\* The backoff sleep of a caller is over: the next attempt's request.
BackoffWake(c) ==
  /\ UNCHANGED besidesSearch
  /\ spc[c] = "backoff"
  /\ clock >= wakeAt[c]
  /\ spc' = [spc EXCEPT ![c] = "fetching"]
  /\ wakeAt' = [wakeAt EXCEPT ![c] = 0]
  /\ SendRequest(c, nrequests[c] + 1)
  /\ UNCHANGED <<clock, lastSearchMs, attempt, squery, sret, sstatus, ncalls,
                 lastBegin, beginGap>>

\* Time passes (while a call is under way or still to come).
Tick ==
  /\ UNCHANGED besidesSearch
  /\ clock + TickMs <= StartMs + MaxTicks * TickMs
  /\ ncalls < MaxSearches \/ \E c \in Callers : spc[c] # "idle"
  /\ clock' = clock + TickMs
  /\ UNCHANGED <<lastSearchMs, spc, wakeAt, attempt, squery, sret, sstatus,
                 ncalls, lastBegin, beginGap, lastRequest, requestGap,
                 nrequests>>

NextSearch ==
  \/ \E c \in Callers, q \in Queries : SearchCall(c, q)
  \/ \E c \in Callers : PacingWake(c)
  \/ \E c \in Callers, resp \in Responses : Respond(c, resp)
  \/ \E c \in Callers : BackoffWake(c)
  \/ Tick

----------------------------------------------------------------------------
\* -------------------------------------------------------------- chooseVote
\* The recovery ladder of chooseVote (llm.js 363-383; the same code in
\* falling-sands/server.js 183-206).  Strings are sequences of characters.

\* The options of a survey and the length of a reply.
MaxOptions == 2
MaxReplyLen == 2

\* The characters ' " ` (the last two by name).
QuoteChars == {"'", "dquote", "backtick"}
ReplyChars == {"a", "A", "b", "'", " "}

VoteKeys == {<<"a">>, <<"b", "b">>, <<"a", "b">>}
VoteLabels == {<<"A">>, <<"b", "'">>}
VoteOptions == {[key |-> k, label |-> l] : k \in VoteKeys, l \in VoteLabels}

SeqsUpTo(S, n) == UNION {[1..m -> S] : m \in 0..n}

\* String.prototype.toLowerCase
LowerChar(c) == CASE c = "A" -> "a" [] c = "B" -> "b" [] OTHER -> c
toLowerCase(str) == [i \in 1..Len(str) |-> LowerChar(str[i])]

\* String.prototype.trim
RECURSIVE TrimStart(_)
TrimStart(str) ==
  IF str # <<>> /\ Head(str) = " " THEN TrimStart(Tail(str)) ELSE str

RECURSIVE TrimEnd(_)
TrimEnd(str) ==
  IF str # <<>> /\ str[Len(str)] = " "
    THEN TrimEnd(SubSeq(str, 1, Len(str) - 1))
    ELSE str

trim(str) == TrimEnd(TrimStart(str))

\* key.replace(/['"`]/g, "")
StripQuotes(str) == SelectSeq(str, LAMBDA c : c \notin QuoteChars)

\* String.prototype.includes
includes(str, sub) ==
  \E i \in 0..(Len(str) - Len(sub)) : SubSeq(str, i + 1, i + Len(sub)) = sub

\* Array.prototype.find with the three tests of the ladder: the index of the
\* first option from i on that passes, 0 when none does.
IsExact(o, key) == o.key = key
IsByLabel(o, lower) == toLowerCase(o.label) = lower \/ toLowerCase(o.key) = lower
IsBySub(o, lower) ==
  includes(lower, toLowerCase(o.key)) \/ includes(lower, toLowerCase(o.label))

RECURSIVE find(_, _, _, _)
find(opts, test, str, i) ==
  IF i > Len(opts) THEN 0
  ELSE IF \/ test = "exact" /\ IsExact(opts[i], str)
          \/ test = "byLabel" /\ IsByLabel(opts[i], str)
          \/ test = "bySub" /\ IsBySub(opts[i], str)
    THEN i
  ELSE find(opts, test, str, i + 1)

NoVote == [isNull |-> TRUE, key |-> <<>>]
Voted(key) == [isNull |-> FALSE, key |-> key]

FirstKeyDropped(opts) == NoVote

\* options[0]?.key || null
FirstKeyOrNull(opts) ==
  IF opts = <<>> \/ opts[1].key = <<>> THEN NoVote ELSE Voted(opts[1].key)

LadderSubstringFirst(opts, reply) ==
  LET key == StripQuotes(trim(reply))
      lower == toLowerCase(key)
      exact == find(opts, "exact", key, 1)
      byLabel == find(opts, "byLabel", lower, 1)
      bySub == find(opts, "bySub", lower, 1)
  IN IF exact # 0 THEN Voted(key)
     ELSE IF bySub # 0 THEN Voted(opts[bySub].key)
     ELSE IF byLabel # 0 THEN Voted(opts[byLabel].key)
     ELSE FirstKeyOrNull(opts)

\* The ladder, from the reply chat() returned (llm.js 364-382).
Ladder(opts, reply) ==
  LET key == StripQuotes(trim(reply))
      lower == toLowerCase(key)
      exact == find(opts, "exact", key, 1)
      byLabel == find(opts, "byLabel", lower, 1)
      bySub == find(opts, "bySub", lower, 1)
  IN IF exact # 0 THEN Voted(key)
     ELSE IF byLabel # 0 THEN Voted(opts[byLabel].key)
     ELSE IF bySub # 0 THEN Voted(opts[bySub].key)
     ELSE FirstKeyOrNull(opts)

InitVote ==
  /\ options \in SeqsUpTo(VoteOptions, MaxOptions)
  /\ vpc = "idle"
  /\ voteReply = <<>>
  /\ vote = NoVote

\* No vote is under way (the specifications of the other components).
VoteIdle ==
  /\ options = <<>>
  /\ vpc = "idle"
  /\ voteReply = <<>>
  /\ vote = NoVote

\* chooseVote is called; after the research it asks for its completion.
VoteAsks ==
  /\ UNCHANGED besidesVote
  /\ vpc = "idle"
  /\ vpc' = "chat"
  /\ UNCHANGED <<options, voteReply, vote>>

\* chat() returns the trimmed content and the ladder picks the key.
VoteChatReturns(content) ==
  /\ UNCHANGED besidesVote
  /\ vpc = "chat"
  /\ vpc' = "returned"
  /\ voteReply' = trim(content)
  /\ vote' = Ladder(options, trim(content))
  /\ UNCHANGED options

NextVote ==
  \/ VoteAsks
  \/ \E content \in SeqsUpTo(ReplyChars, MaxReplyLen) : VoteChatReturns(content)

----------------------------------------------------------------------------
\* ----------------------------------------------------------- generateImage
\* generateImage and its three backends (llm.js 468-573).

\* The calls of generateImage made to one LLM object.
MaxImages == 3

\* c.images.generate({ model: m, prompt: description, ... }) (llm.js 488-496)
RenderWith(client, prompt) == [client |-> client, prompt |-> prompt]
NoRender == RenderWith("none", "none")

\* The provider names of PROVIDERS (llm.js 31-60), one name that is not in
\* it, and the option left out.
ProviderNames == {"openai", "anthropic", "gemini", "grok"}
Unset == ""
Configs ==
  [provider : ProviderNames \cup {"mistral"},
   imageProvider : ProviderNames \cup {"mistral", Unset}]

\* (PROVIDERS[name] || PROVIDERS.openai).imageBackend
PresetBackend(name) ==
  CASE name = "anthropic" -> "anthropic-refine"
    [] name = "gemini" -> "gemini-native"
    [] OTHER -> "openai-compat"

\* imgProvider = imageProvider || provider (llm.js 91)
imgProvider(cfg) ==
  IF cfg.imageProvider # Unset THEN cfg.imageProvider ELSE cfg.provider

\* imgBackend = imgPreset.imageBackend || "openai-compat" (llm.js 92-96)
ImageBackend(cfg) == PresetBackend(imgProvider(cfg))

RenderProviderAsImage(cfg) == imgProvider(cfg)

\* renderProvider = imageProvider && imageProvider !== "anthropic"
\*                    ? imageProvider : "openai" (llm.js 103)
RenderProvider(cfg) ==
  IF cfg.imageProvider # Unset /\ cfg.imageProvider # "anthropic"
    THEN cfg.imageProvider
    ELSE "openai"

\* let renderProvider = null; if (imgBackend === "anthropic-refine") ...
\* (llm.js 99-109)
ResolvedRenderProvider(cfg) ==
  IF ImageBackend(cfg) = "anthropic-refine" THEN RenderProvider(cfg)
  ELSE "null"

\* What the actions of generateImage leave alone: createLLM's constants.
imageConfig ==
  <<llmConfig, renderProvider, imgBackend, canGenerateImages, imageStoreURL>>

InitImage ==
  /\ llmConfig \in Configs
  /\ renderProvider = ResolvedRenderProvider(llmConfig)
  /\ imgBackend = ImageBackend(llmConfig)
  /\ canGenerateImages \in BOOLEAN
  /\ imageStoreURL \in BOOLEAN
  /\ ipc = "idle"
  /\ imgResult = "none"
  /\ imgRequests = <<>>
  /\ imgOutcome = "none"
  /\ imgRender = NoRender

\* No image is asked for (the specifications of the other components).
ImageIdle ==
  /\ llmConfig = [provider |-> "openai", imageProvider |-> Unset]
  /\ renderProvider = "null"
  /\ imgBackend = "openai-compat"
  /\ canGenerateImages = TRUE
  /\ imageStoreURL = FALSE
  /\ ipc = "idle"
  /\ imgResult = "none"
  /\ imgRequests = <<>>
  /\ imgOutcome = "none"
  /\ imgRender = NoRender

ImageRaises(reqs) ==
  /\ ipc' = "raised"
  /\ imgResult' = "none"
  /\ imgRequests' = reqs

\* generateImage returns value (a url of the provider, a url of the image
\* store, null, undefined).
ImageReturns(value, reqs) ==
  /\ ipc' = "returned"
  /\ imgResult' = value
  /\ imgRequests' = reqs

\* catch (e) { console.error(...); return null; }
ImageCaught(reqs) == ImageReturns("null", reqs)

\* A request goes out and generateImage awaits the answer at pc.
ImageAwaits(pc, request, reqs) ==
  /\ ipc' = pc
  /\ imgRequests' = Append(reqs, request)
  /\ UNCHANGED imgResult

\* _generateImageOpenAICompat up to c.images.generate (llm.js 487-496);
\* client: whether c is set.
RenderStarts(client, reqs) ==
  IF ~client THEN ImageReturns("null", reqs)
  ELSE ImageAwaits("render", "images.generate", reqs)

\* The request _generateImageOpenAICompat(description) sends: c = imgClient.
DirectRender == RenderWith("imgClient", "description")

\* generateImage(description) is called (llm.js 468-480, 502-516, 550-564).
GenerateImage ==
  /\ UNCHANGED besidesImage
  /\ imgOutcome' = "none"
  /\ imgRender' = IF canGenerateImages /\ imgBackend = "openai-compat"
                    THEN DirectRender ELSE NoRender
  /\ ipc \in {"idle", "returned"}
  /\ Cardinality({i \in 1..Len(imgRequests) : imgRequests[i] = "call"}) < MaxImages
  /\ LET reqs == Append(imgRequests, "call")
     IN IF ~canGenerateImages THEN ImageReturns("null", reqs)
        ELSE IF imgBackend = "gemini-native"
          THEN ImageAwaits("imagen", "imagen", reqs)
        ELSE IF imgBackend = "anthropic-refine"
          THEN ImageAwaits("refine", "chat", reqs)
        ELSE RenderStarts(canGenerateImages, reqs)  \* imgClient (llm.js 112)
  /\ UNCHANGED imageConfig

ImagenOutcomes == {"rejects", "not ok", "no json", "no image", "image"}

ImagenRespondsNoStoreCheck(outcome) ==
  /\ UNCHANGED besidesImage
  /\ imgOutcome' = outcome
  /\ UNCHANGED imgRender
  /\ ipc = "imagen"
  /\ IF outcome \in {"rejects", "not ok", "no json"}
       THEN ImageCaught(imgRequests)
     ELSE IF outcome = "no image" THEN ImageReturns("null", imgRequests)
     ELSE ImageAwaits("upload", "upload", imgRequests)
  /\ UNCHANGED imageConfig

\* The Imagen request is answered (llm.js 518-541).
ImagenResponds(outcome) ==
  /\ UNCHANGED besidesImage
  /\ imgOutcome' = outcome
  /\ UNCHANGED imgRender
  /\ ipc = "imagen"
  /\ IF outcome \in {"rejects", "not ok", "no json"}
       THEN ImageCaught(imgRequests)
     ELSE IF outcome = "no image" THEN ImageReturns("null", imgRequests)
     ELSE IF ~imageStoreURL THEN ImageReturns("null", imgRequests)
     ELSE ImageAwaits("upload", "upload", imgRequests)
  /\ UNCHANGED imageConfig

UploadOutcomes == {"rejects", "not ok", "no json", "no url", "url"}

UploadRespondsUncaught(outcome) ==
  /\ UNCHANGED besidesImage
  /\ imgOutcome' = outcome
  /\ UNCHANGED imgRender
  /\ ipc = "upload"
  /\ IF outcome \in {"rejects", "not ok", "no json"}
       THEN ImageRaises(imgRequests)
     ELSE IF outcome = "no url" THEN ImageReturns("undefined", imgRequests)
     ELSE ImageReturns("stored url", imgRequests)
  /\ UNCHANGED imageConfig

\* The upload to the image store is answered (llm.js 542-547).
UploadResponds(outcome) ==
  /\ UNCHANGED besidesImage
  /\ imgOutcome' = outcome
  /\ UNCHANGED imgRender
  /\ ipc = "upload"
  /\ IF outcome \in {"rejects", "not ok", "no json"}
       THEN ImageCaught(imgRequests)
     ELSE IF outcome = "no url" THEN ImageReturns("undefined", imgRequests)
     ELSE ImageReturns("stored url", imgRequests)
  /\ UNCHANGED imageConfig

\* The rewrite completion fails, or chat() returns its trimmed text: some
\* prompt, or the empty string.
RefineOutcomes == {"rejects", "prompt", "empty prompt"}

RefinedPrompt(outcome) == IF outcome = "prompt" THEN "refined" ELSE ""

RefinedRenderOriginal(refinedPrompt) == RenderWith("renderClient", "description")

\* _generateImageOpenAICompat(refinedPrompt, renderClient, renderModel)
\* (llm.js 572, 488-496): c = renderClient, prompt = refinedPrompt.
RefinedRender(refinedPrompt) == RenderWith("renderClient", refinedPrompt)

\* The rewrite completion is answered (llm.js 551-572); renderClient is set
\* whenever the backend is anthropic-refine (llm.js 102-109).
RefineResponds(outcome) ==
  /\ UNCHANGED besidesImage
  /\ imgOutcome' = outcome
  /\ ipc = "refine"
  /\ IF outcome = "rejects"
       THEN /\ ImageCaught(imgRequests)
            /\ UNCHANGED imgRender
       ELSE /\ RenderStarts(imgBackend = "anthropic-refine", imgRequests)
            /\ imgRender' = RefinedRender(RefinedPrompt(outcome))
  /\ UNCHANGED imageConfig

RenderOutcomes == {"rejects", "no data", "no url", "url"}

\* c.images.generate is answered (llm.js 491-499).
RenderResponds(outcome) ==
  /\ UNCHANGED besidesImage
  /\ imgOutcome' = outcome
  /\ UNCHANGED imgRender
  /\ ipc = "render"
  /\ IF outcome \in {"rejects", "no data"} THEN ImageCaught(imgRequests)
     ELSE IF outcome = "no url" THEN ImageReturns("null", imgRequests)
     ELSE ImageReturns("provider url", imgRequests)
  /\ UNCHANGED imageConfig

NextImage ==
  \/ GenerateImage
  \/ \E outcome \in ImagenOutcomes : ImagenResponds(outcome)
  \/ \E outcome \in UploadOutcomes : UploadResponds(outcome)
  \/ \E outcome \in RefineOutcomes : RefineResponds(outcome)
  \/ \E outcome \in RenderOutcomes : RenderResponds(outcome)

----------------------------------------------------------------------------
\* ----------------------------------------------------------- suggestOption
\* suggestOption from its completion on (llm.js 441-461; the same code with
\* another cap and without canGenerateImages in falling-sands/server.js
\* 242-264).

Implementations == {"cis", "falling-sands"}

\* The replies of the chat model to the suggestion prompt.
Object3(k1, v1, k2, v2, k3, v3) ==
  <<LB, STR(k1), COLON, v1, COMMA, STR(k2), COLON, v2, COMMA,
    STR(k3), COLON, v3, RB>>

Suggested(label, wantsImage, imageDescription) ==
  Object3("label", label, "wantsImage", LIT(wantsImage),
          "imageDescription", STR(imageDescription))

DarkMode == Suggested(STR("Add dark mode"), "false", "")

SuggestBodies ==
  {DarkMode,
   Suggested(STR("Add dark mode"), "true", "brief"),
   Suggested(STR("report"), "false", ""),
   Suggested(STR("headline"), "true", " padded "),
   Suggested(STR(" padded "), "false", ""),
   Suggested(NUM("5"), "true", ""),
   Object1("imageDescription", STR("brief")),
   <<LB, PROSE("I think"), RB>>,
   <<PROSE("headline")>>,
   <<PROSE("essay")>>,
   <<>>}

SuggestPrefixes == {<<>>, <<PROSE("ok here's one:"), WS>>, <<FENCE, TAG, WS>>}

SuggestSuffixes ==
  {<<>>, <<WS, PROSE("I think")>>, <<WS, PROSE(":-}")>>,
   <<WS, PROSE("or"), WS>> \o Object1("label", STR("brief"))}

SuggestReplies ==
  {pre \o body \o post :
     pre \in SuggestPrefixes, body \in SuggestBodies, post \in SuggestSuffixes}

\* String.prototype.trim() on a computed string.
TrimWord(w) == IF w = " padded " THEN "padded" ELSE w
TrimString(s) ==
  IF s.kind = "word" THEN FromWord(TrimWord(s.w)) ELSE FromText(Trim(s.toks))

\* The label is cut to 200 characters (llm.js 448, 458), to 80 in
\* falling-sands (server.js 248, 259).
LabelCap(impl) == IF impl = "cis" THEN 200 ELSE 80

Suggestion(label, wantsImage, imageDescription) ==
  [label |-> label, wantsImage |-> wantsImage,
   imageDescription |-> imageDescription]

NoSuggestion == Suggestion(EmptyString, FALSE, EmptyString)

SuggestParsedUncut(impl, parsed) ==
  Suggestion(TrimString(JsString(OrElse(Get(parsed, "label"), EmptyStr))),
             Truthy(Get(parsed, "wantsImage")),
             TrimString(JsString(OrElse(Get(parsed, "imageDescription"),
                                        EmptyStr))))

\* The object returned from the parsed reply (llm.js 447-451).
SuggestParsed(impl, parsed) ==
  Suggestion(Slice(TrimString(JsString(OrElse(Get(parsed, "label"), EmptyStr))),
                   LabelCap(impl)),
             (impl = "cis" => canGenerateImages)
               /\ Truthy(Get(parsed, "wantsImage")),
             TrimString(JsString(OrElse(Get(parsed, "imageDescription"),
                                        EmptyStr))))

\* The fallback (llm.js 457-461).
SuggestFallback(impl, resp) ==
  Suggestion(Slice(FromText(resp), LabelCap(impl)), FALSE, EmptyString)

InitSuggest ==
  /\ sugImpl \in Implementations
  /\ sugPc = "idle"
  /\ sugReply = <<>>
  /\ suggestion = NoSuggestion
  /\ sugError = "none"

\* No suggestion is asked for (the specifications of the other components).
SuggestIdle ==
  /\ sugImpl = "cis"
  /\ sugPc = "idle"
  /\ sugReply = <<>>
  /\ suggestion = NoSuggestion
  /\ sugError = "none"

\* suggestOption is called and, its research done, awaits chat(system, user).
SuggestAsks ==
  /\ UNCHANGED besidesSuggest
  /\ sugPc \in {"idle", "returned", "raised"}
  /\ sugPc' = "chat"
  /\ sugError' = "none"
  /\ UNCHANGED <<sugImpl, sugReply, suggestion>>

SuggestChatReturnsUncaught(content) ==
  /\ UNCHANGED besidesSuggest
  /\ sugPc = "chat"
  /\ LET resp == ChatText(content)
         jsonMatch == GreedyObject(resp)
     IN /\ sugReply' = resp
        /\ IF jsonMatch.found /\ ~jsonMatch.ok
             THEN /\ sugPc' = "raised"
                  /\ sugError' = "SyntaxError"
                  /\ UNCHANGED suggestion
             ELSE /\ sugPc' = "returned"
                  /\ suggestion' = IF jsonMatch.found
                                     THEN SuggestParsed(sugImpl, jsonMatch.v)
                                     ELSE SuggestFallback(sugImpl, resp)
                  /\ UNCHANGED sugError
  /\ UNCHANGED sugImpl

\* chat() returns; the reply is parsed (llm.js 441-461).
SuggestChatReturns(content) ==
  /\ UNCHANGED besidesSuggest
  /\ sugPc = "chat"
  /\ LET resp == ChatText(content)
         jsonMatch == GreedyObject(resp)
     IN /\ sugReply' = resp
        /\ sugPc' = "returned"
        /\ suggestion' = IF jsonMatch.found /\ jsonMatch.ok
                           THEN SuggestParsed(sugImpl, jsonMatch.v)
                           ELSE SuggestFallback(sugImpl, resp)
  /\ UNCHANGED <<sugImpl, sugError>>

\* chat() throws: suggestOption has no handler around it.
SuggestChatFails ==
  /\ UNCHANGED besidesSuggest
  /\ sugPc = "chat"
  /\ sugPc' = "raised"
  /\ sugError' = "ProviderError"
  /\ UNCHANGED <<sugImpl, sugReply, suggestion>>

NextSuggest ==
  \/ SuggestAsks
  \/ \E content \in SuggestReplies : SuggestChatReturns(content)
  \/ SuggestChatFails

----------------------------------------------------------------------------
\* ------------------------------------------------ _parseJsonCommand alone
\* The parser applied to a command text and to a reply that wraps it.

DoneWithBrace == Object2("action", STR("done"), "summary", STR("a}b"))
SearchLate    == Object2("query", STR("q"), "action", STR("search"))
SearchSpaced  ==
  <<LB, WS, STR("action"), WS, COLON, WS, STR("search"), COMMA, WS,
    STR("query"), COLON, WS, STR("q"), WS, RB>>

CommandTexts ==
  {SearchCmd, SearchLate, SearchSpaced, ReadCmd, ReadNumUrl, DoneBrief,
   DoneReport, DoneBare, DoneWithBrace, DanceCmd}

Wrappings == {"fence json", "fence", "prose", "prose and fence"}

Wrap(kind, text) ==
  CASE kind = "fence json" -> <<FENCE, TAG, WS>> \o text \o <<WS, FENCE>>
    [] kind = "fence" -> <<FENCE, WS>> \o text \o <<WS, FENCE>>
    [] kind = "prose" -> <<PROSE("I think"), WS>> \o text
    [] kind = "prose and fence" ->
         <<PROSE("I think"), WS, FENCE, TAG, WS>> \o text \o <<WS, FENCE>>

InitParse ==
  /\ cmdText \in CommandTexts
  /\ wrapping \in Wrappings
  /\ parsedSet = {}
  /\ cmdWrapped = Null
  /\ cmdBare = Null

\* No text is being parsed (the specifications of the other components).
ParseIdle ==
  /\ cmdText = SearchCmd
  /\ wrapping = "fence"
  /\ parsedSet = {}
  /\ cmdWrapped = Null
  /\ cmdBare = Null

\* _parseJsonCommand(reply)
ParseWrapped ==
  /\ UNCHANGED besidesParse
  /\ "wrapped" \notin parsedSet
  /\ parsedSet' = parsedSet \cup {"wrapped"}
  /\ cmdWrapped' = _parseJsonCommand(ChatText(Wrap(wrapping, cmdText)))
  /\ UNCHANGED <<cmdText, wrapping, cmdBare>>

\* _parseJsonCommand(command text)
ParseBare ==
  /\ UNCHANGED besidesParse
  /\ "bare" \notin parsedSet
  /\ parsedSet' = parsedSet \cup {"bare"}
  /\ cmdBare' = _parseJsonCommand(ChatText(cmdText))
  /\ UNCHANGED <<cmdText, wrapping, cmdWrapped>>

NextParse == ParseWrapped \/ ParseBare

----------------------------------------------------------------------------
\* ------------------------------------------------- concurrent research runs
\* Several invocations of research() on one LLM object and one Search Tool
\* (llm.js 241-317, index.js 437-458).  What an invocation keeps is local to
\* it: messages, step, response, cmd.  What the invocations share: the
\* closure of createSearchTools (lastSearchMs) and the constants of createLLM.

Runs == Callers

\* A message, with the invocation whose code created it.
MessageBy(r, role, kind) == [by |-> r, role |-> role, kind |-> kind]

ConversationShared(r) == "runA"

\* The array an invocation's messages refers to: its own.
Conversation(r) == r

RunReplies == {SearchCmd, DoneBrief, ProseReply}

RunResponses ==
  {[status |-> 200, body |-> "json", n |-> 1],
   [status |-> 429, body |-> "json", n |-> 1]}

InitRuns ==
  /\ conv = [r \in Runs |-> <<>>]
  /\ runPc = [r \in Runs |-> "idle"]
  /\ runStep = [r \in Runs |-> 0]

\* research(topic) is called: const messages = [system, user] (246-255).
RunStarts(r) ==
  /\ UNCHANGED <<besidesRuns, searchVars>>
  /\ runPc[r] \in {"idle", "returned"}
  /\ conv' = [conv EXCEPT ![Conversation(r)] =
                <<MessageBy(r, "system", "system"),
                  MessageBy(r, "user", "topic")>>]
  /\ runPc' = [runPc EXCEPT ![r] = "chat"]
  /\ runStep' = [runStep EXCEPT ![r] = 0]

\* research() returns a string; its messages array goes with the frame.
RunEnds(r) ==
  /\ conv' = [conv EXCEPT ![Conversation(r)] = <<>>]
  /\ runPc' = [runPc EXCEPT ![r] = "returned"]
  /\ UNCHANGED runStep

\* A completion of the loop returns (255-291): the reply is appended and
\* parsed; a search command calls the Search Tool, anything else ends the
\* run here.  Past the last step the reply answers the forcing message.
RunChatReturns(r, content) ==
  /\ UNCHANGED besidesRuns
  /\ runPc[r] = "chat"
  /\ IF runStep[r] < MaxSteps
          /\ IsAction(_parseJsonCommand(ChatText(content)), "search")
       THEN /\ conv' = [conv EXCEPT ![Conversation(r)] =
                          Append(@, MessageBy(r, "assistant", "reply"))]
            /\ runPc' = [runPc EXCEPT ![r] = "search"]
            /\ UNCHANGED runStep
            /\ SearchCalled(r, <<PROSE("q")>>)
       ELSE /\ RunEnds(r)
            /\ UNCHANGED searchVars

\* search() has returned to the run (286-291, then the loop head and, past
\* the last step, the forcing message).
RunSearchReturns(r) ==
  /\ UNCHANGED <<besidesRuns, searchVars>>
  /\ runPc[r] = "search"
  /\ spc[r] = "idle"
  /\ conv' = [conv EXCEPT ![Conversation(r)] =
                IF runStep[r] + 1 < MaxSteps
                  THEN Append(@, MessageBy(r, "user", "results"))
                  ELSE @ \o <<MessageBy(r, "user", "results"),
                              MessageBy(r, "user", "force")>>]
  /\ runPc' = [runPc EXCEPT ![r] = "chat"]
  /\ runStep' = [runStep EXCEPT ![r] = @ + 1]

NextRuns ==
  \/ \E r \in Runs : RunStarts(r)
  \/ \E r \in Runs, content \in RunReplies : RunChatReturns(r, content)
  \/ \E r \in Runs : RunSearchReturns(r)
  \/ \E c \in Callers : PacingWake(c)
  \/ \E c \in Callers, resp \in RunResponses : Respond(c, resp)
  \/ \E c \in Callers : BackoffWake(c)
  \/ Tick

----------------------------------------------------------------------------
\* ------------------------------------------------- fetchPage, by length
\* fetchPage (index.js 396-428) with the lengths of the texts it handles.

MAX_PAGE_CHARS == 3000

\* How far the readable text of a page is from MAX_PAGE_CHARS, at most.
MaxExcess == 60

PageTextLens ==
  {0, 1} \cup (MAX_PAGE_CHARS - MaxExcess)..(MAX_PAGE_CHARS + MaxExcess)

\* The truncation marker is one character, the ellipsis.
MarkerLen == 1

PageResult(kind, len, marker) == [kind |-> kind, len |-> len, marker |-> marker]
NoPage == PageResult("none", 0, FALSE)

\* "(Failed to fetch: 404)", "(No readable content)", "(Error reading page: ...)"
Placeholder(kind) ==
  PageResult(kind,
             CASE kind = "failed" -> 22 [] kind = "unreadable" -> 21
               [] OTHER -> 26,
             FALSE)

\* text.slice(0, MAX_PAGE_CHARS) + (text.length > MAX_PAGE_CHARS ? "…" : "")
Readable(len) ==
  PageResult("text",
             Min(len, MAX_PAGE_CHARS)
               + (IF len > MAX_PAGE_CHARS THEN MarkerLen ELSE 0),
             len > MAX_PAGE_CHARS)

InitPage ==
  /\ pagePc = "idle"
  /\ pageText = 0
  /\ pageResult = NoPage

\* fetchPage(pageUrl) is called and awaits fetch.
FetchPageCalled ==
  /\ UNCHANGED besidesPage
  /\ pagePc \in {"idle", "returned"}
  /\ pagePc' = "fetching"
  /\ pageText' = 0
  /\ pageResult' = NoPage

\* fetch rejects or times out, or resp.text() rejects: the catch.
FetchPageFails ==
  /\ UNCHANGED besidesPage
  /\ pagePc = "fetching"
  /\ pagePc' = "returned"
  /\ pageResult' = Placeholder("error")
  /\ UNCHANGED pageText

\* The answer is not ok.
FetchPageRefused ==
  /\ UNCHANGED besidesPage
  /\ pagePc = "fetching"
  /\ pagePc' = "returned"
  /\ pageResult' = Placeholder("failed")
  /\ UNCHANGED pageText

\* The page arrives; its text, tags and scripts stripped, has len characters.
FetchPageReads(len) ==
  /\ UNCHANGED besidesPage
  /\ pagePc = "fetching"
  /\ pagePc' = "returned"
  /\ pageText' = len
  /\ pageResult' = IF len = 0 THEN Placeholder("unreadable") ELSE Readable(len)

NextPage ==
  \/ FetchPageCalled
  \/ FetchPageFails
  \/ FetchPageRefused
  \/ \E len \in PageTextLens : FetchPageReads(len)

----------------------------------------------------------------------------
\* ------------------------------------------------------------ the bot loop
\* main, runOnce, considerAddingOption and considerVoting (index.js 146-308).
\* The node is the environment: a transaction the bot submitted shows in the
\* list the node returns some time later.

\* The poll cycles of one run of the bot.
MaxCycles == 2

POLL_INTERVAL_S == 10
VOTE_RECONSIDER_S == 3600

\* Date.now() in seconds when the bot starts: any time of this century is
\* more than VOTE_RECONSIDER_S after time 0.
BotStartS == 2 * VOTE_RECONSIDER_S

\* How long main's sleep(POLL_INTERVAL_S * 1000) and the calls the next
\* cycle awaits take together: the interval at least.
SleepTimes == {POLL_INTERVAL_S, VOTE_RECONSIDER_S}

\* The active surveys, in the order rebuildSurveys returns them.
Surveys == <<"s1", "s2">>
SurveyIds == {Surveys[i] : i \in 1..Len(Surveys)}

\* Option keys: those the surveys were created with, and the key of the
\* n-th option the bot added to a survey (slugify(label) or opt_<time>).
Key(name, n) == [name |-> name, n |-> n]
NoKey == Key("", 0)
BaseOptions == [s \in SurveyIds |-> IF s = "s1" THEN {Key("a", 0)} ELSE {}]
OptionKey(n) == Key("opt", n)

\* One survey's part of a transaction list: how many add_option
\* transactions of the bot it holds, and the choice of the bot's latest vote
\* transaction in it.
Listed(added, voteKey) == [added |-> added, voteKey |-> voteKey]

\* computeResults(txs, appKey, survey, botAddress).botAddedOption: whether
\* the list holds an add_option transaction of the bot for the survey.
botAddedOption(list, s) == list[s].added > 0

\* computeResults(txs, appKey, survey, botAddress): the options of the
\* survey in the list, whether the bot added one, and the bot's vote.
computeResults(list, s) ==
  [options |-> BaseOptions[s] \cup {OptionKey(n) : n \in 1..list[s].added},
   botAddedOption |-> botAddedOption(list, s),
   voteKey |-> list[s].voteKey]

NoResults == [options |-> {}, botAddedOption |-> FALSE, voteKey |-> NoKey]
NoList == [got |-> FALSE, list |-> [s \in SurveyIds |-> Listed(0, NoKey)]]
Got(list) == [got |-> TRUE, list |-> list]

\* considerVoting has been called at time now and has called chooseVote
\* asked times.
Voting(now, asked) ==
  [now |-> now, chosenKey |-> NoKey, asked |-> asked, sentVotes |-> 0,
   returned |-> FALSE]

\* The votes of an earlier run of the bot that the node lists when the bot
\* starts: lastVoteConsideredAt is in memory only and lost on restart (53).
EarlierVotes ==
  {[s \in SurveyIds |-> <<>>],
   [s \in SurveyIds |-> IF s = "s1" THEN <<Key("a", 0)>> ELSE <<>>]}

InitBotAfter(earlier) ==
  /\ cycle = 0
  /\ botPc = "asleep"
  /\ cur = 0
  /\ txs = NoList.list
  /\ surveyResults = NoResults
  /\ refetched = NoList
  /\ sent = [s \in SurveyIds |-> 0]
  /\ seen = [s \in SurveyIds |-> 0]
  /\ votes = earlier
  /\ votesSeen = [s \in SurveyIds |-> Len(earlier[s])]
  /\ botClock = BotStartS
  /\ lastVoteConsideredAt = [s \in SurveyIds |-> 0]
  /\ voting = Voting(0, 0)
  /\ failedRevote = [s \in SurveyIds |-> 0]
  /\ botError = "none"

InitBot == InitBotAfter([s \in SurveyIds |-> <<>>])

\* What the steps before considerVoting leave alone.
votingVars ==
  <<votes, votesSeen, lastVoteConsideredAt, voting, failedRevote>>

\* The node lists one more of the add_option transactions of the bot.
TxBecomesVisible(s) ==
  /\ UNCHANGED besidesBot
  /\ seen[s] < sent[s]
  /\ seen' = [seen EXCEPT ![s] = @ + 1]
  /\ UNCHANGED <<cycle, botPc, cur, txs, surveyResults, refetched, sent,
                 botClock, botError, votingVars>>

\* The node lists one more of the vote transactions of the bot.
VoteBecomesVisible(s) ==
  /\ UNCHANGED besidesBot
  /\ votesSeen[s] < Len(votes[s])
  /\ votesSeen' = [votesSeen EXCEPT ![s] = @ + 1]
  /\ UNCHANGED <<cycle, botPc, cur, txs, surveyResults, refetched, sent, seen,
                 botClock, botError, votes, lastVoteConsideredAt, voting,
                 failedRevote>>

\* fetchTransactions(NODE_URL, CIS_APP_PUBKEY, 400): what the node lists now.
fetchTransactions ==
  [s \in SurveyIds |->
     Listed(seen[s],
            IF votesSeen[s] = 0 THEN NoKey ELSE votes[s][votesSeen[s]])]

\* main wakes and calls runOnce, which fetches the transactions (238-248);
\* a failed fetch is caught by main, which sleeps again (300-306).
RunOnce(ok, slept) ==
  /\ UNCHANGED besidesBot
  /\ botPc = "asleep"
  /\ cycle < MaxCycles
  /\ cycle' = cycle + 1
  /\ botClock' = IF cycle = 0 THEN botClock ELSE botClock + slept
  /\ IF ok
       THEN /\ txs' = fetchTransactions
            /\ botPc' = "username"
            /\ botError' = "none"
       ELSE /\ botPc' = "asleep"
            /\ botError' = "Loop error"
            /\ UNCHANGED txs
  /\ UNCHANGED <<cur, surveyResults, refetched, sent, seen, votingVars>>

\* The loop over the active surveys reaches survey number i, whose results
\* it computes from txs (250-251), or its end.
NextSurvey(i) ==
  /\ cur' = IF i <= Len(Surveys) THEN i ELSE 0
  /\ botPc' = IF i <= Len(Surveys) THEN "add" ELSE "asleep"
  /\ surveyResults' =
       IF i <= Len(Surveys) THEN computeResults(txs, Surveys[i]) ELSE NoResults
  /\ refetched' = NoList

\* ensureUsername(txs) returns, or throws out of runOnce (105-144, 248).
EnsureUsername(ok) ==
  /\ UNCHANGED besidesBot
  /\ botPc = "username"
  /\ IF ok THEN NextSurvey(1) /\ UNCHANGED botError
     ELSE /\ botPc' = "asleep"
          /\ botError' = "Loop error"
          /\ UNCHANGED <<cur, surveyResults, refetched>>
  /\ UNCHANGED <<cycle, txs, sent, seen, botClock, votingVars>>

\* considerAddingOption(llm, survey, results) up to llm.suggestOption
\* (251-256, 190-198): nothing to do when the bot's option is in results.
ConsiderAddingOption ==
  /\ UNCHANGED besidesBot
  /\ botPc = "add"
  /\ botPc' = IF surveyResults.botAddedOption THEN "vote" ELSE "suggest"
  /\ UNCHANGED <<cycle, cur, txs, surveyResults, refetched, sent, seen,
                 botClock, botError, votingVars>>

\* llm.suggestOption returns a suggestion with a label, or one without, or
\* throws (198-202, 262-264).  With a label the image, if one is wanted, is
\* generated and re-hosted (207-219), which changes the label only, and the
\* transaction is sent (224-230).
SuggestionReturns(outcome) ==
  /\ UNCHANGED besidesBot
  /\ botPc = "suggest"
  /\ CASE outcome = "label" -> botPc' = "send" /\ UNCHANGED botError
       [] outcome = "no label" -> botPc' = "refetch" /\ UNCHANGED botError
       [] outcome = "throws" ->
            botPc' = "vote" /\ botError' = "Add-option error"
  /\ UNCHANGED <<cycle, cur, txs, surveyResults, refetched, sent, seen, botClock,
                 votingVars>>

\* sendTransaction(..., add_option memo) returns, or throws (230, 262-264).
TransactionSent(ok) ==
  /\ UNCHANGED besidesBot
  /\ botPc = "send"
  /\ IF ok
       THEN /\ sent' = [sent EXCEPT ![Surveys[cur]] = @ + 1]
            /\ botPc' = "refetch"
            /\ UNCHANGED botError
       ELSE /\ botPc' = "vote"
            /\ botError' = "Add-option error"
            /\ UNCHANGED sent
  /\ UNCHANGED <<cycle, cur, txs, surveyResults, refetched, seen, botClock,
                 votingVars>>

\* txs = await fetchTransactions(...); results = computeResults(txs, ...)
\* (257-264): the list is fetched, or the fetch throws.  txs is declared
\* const (239), so the assignment throws a TypeError once the list has
\* arrived and line 260 is not reached: txs and results stay as they were.
\* The catch of line 262 takes either exception.
Refetch(ok) ==
  /\ UNCHANGED besidesBot
  /\ botPc = "refetch"
  /\ botPc' = "vote"
  /\ botError' = "Add-option error"
  /\ refetched' = IF ok THEN Got(fetchTransactions) ELSE refetched
  /\ UNCHANGED <<cycle, cur, txs, surveyResults, sent, seen, botClock,
                 votingVars>>

\* alreadyVoted = botEntry && botEntry.voteKey (152).
alreadyVoted(res) == res.voteKey # NoKey

TooSoonNever(res, now, lastConsidered) == FALSE

\* alreadyVoted && now - lastConsidered < VOTE_RECONSIDER_S * 1000 (155),
\* in seconds.
TooSoon(res, now, lastConsidered) ==
  alreadyVoted(res) /\ now - lastConsidered < VOTE_RECONSIDER_S

\* considerVoting(llm, survey, results) up to llm.chooseVote (146-162): it
\* returns at once without options, or when the bot voted and considered the
\* survey not long ago; the loop then goes on (266-271).
ConsiderVoting ==
  /\ UNCHANGED besidesBot
  /\ botPc = "vote"
  /\ LET s == Surveys[cur]
         skip == \/ surveyResults.options = {}
                 \/ TooSoon(surveyResults, botClock, lastVoteConsideredAt[s])
     IN IF skip
          THEN /\ NextSurvey(cur + 1)
               /\ voting' = Voting(botClock, 0)
          ELSE /\ botPc' = "choose"
               /\ voting' = Voting(botClock, 1)
               /\ UNCHANGED <<cur, surveyResults, refetched>>
  /\ UNCHANGED <<cycle, txs, sent, seen, botClock, botError, votes, votesSeen,
                 lastVoteConsideredAt, failedRevote>>

\* The keys llm.chooseVote can return: a key of the options, or none when
\* the key of the first option is empty (llm.js 366-382).
ChosenKeys(res) == res.options \cup {NoKey}

SendsVoteAlways(res, chosenKey) == TRUE

\* Whether considerVoting goes on to send the vote (165-174).
SendsVote(res, chosenKey) ==
  /\ chosenKey # NoKey
  /\ ~(alreadyVoted(res) /\ res.voteKey = chosenKey)

\* llm.chooseVote returns (162-174): the time of the call is recorded, and
\* the vote is sent unless there is no key or the key is the bot's vote.
ChooseVoteReturns(chosenKey) ==
  /\ UNCHANGED besidesBot
  /\ botPc = "choose"
  /\ chosenKey \in ChosenKeys(surveyResults)
  /\ lastVoteConsideredAt' =
       [lastVoteConsideredAt EXCEPT ![Surveys[cur]] = voting.now]
  /\ voting' = [voting EXCEPT !.chosenKey = chosenKey, !.returned = TRUE]
  /\ IF SendsVote(surveyResults, chosenKey)
       THEN botPc' = "send vote" /\ UNCHANGED <<cur, surveyResults, refetched>>
       ELSE NextSurvey(cur + 1)
  /\ UNCHANGED <<cycle, txs, sent, seen, botClock, botError, votes, votesSeen,
                 failedRevote>>

\* llm.chooseVote throws (162, 268-270): nothing is recorded.
ChooseVoteFails ==
  /\ UNCHANGED besidesBot
  /\ botPc = "choose"
  /\ botError' = "Vote error"
  /\ failedRevote' =
       IF alreadyVoted(surveyResults)
         THEN [failedRevote EXCEPT ![Surveys[cur]] = cycle]
         ELSE failedRevote
  /\ NextSurvey(cur + 1)
  /\ UNCHANGED <<cycle, txs, sent, seen, botClock, votes, votesSeen,
                 lastVoteConsideredAt, voting>>

\* sendTransaction(..., vote memo) returns, or throws (180-187, 268-270).
VoteSent(ok) ==
  /\ UNCHANGED besidesBot
  /\ botPc = "send vote"
  /\ IF ok
       THEN /\ votes' = [votes EXCEPT ![Surveys[cur]] =
                           Append(@, voting.chosenKey)]
            /\ voting' = [voting EXCEPT !.sentVotes = @ + 1]
            /\ UNCHANGED botError
       ELSE /\ botError' = "Vote error"
            /\ UNCHANGED <<votes, voting>>
  /\ NextSurvey(cur + 1)
  /\ UNCHANGED <<cycle, txs, sent, seen, botClock, votesSeen,
                 lastVoteConsideredAt, failedRevote>>

NextBot ==
  \/ \E ok \in BOOLEAN, slept \in SleepTimes : RunOnce(ok, slept)
  \/ \E ok \in BOOLEAN : EnsureUsername(ok)
  \/ ConsiderAddingOption
  \/ \E outcome \in {"label", "no label", "throws"} : SuggestionReturns(outcome)
  \/ \E ok \in BOOLEAN : TransactionSent(ok)
  \/ \E ok \in BOOLEAN : Refetch(ok)
  \/ ConsiderVoting
  \/ \E k \in ChosenKeys(surveyResults) : ChooseVoteReturns(k)
  \/ ChooseVoteFails
  \/ \E ok \in BOOLEAN : VoteSent(ok)
  \/ \E s \in SurveyIds : TxBecomesVisible(s)
  \/ \E s \in SurveyIds : VoteBecomesVisible(s)

----------------------------------------------------------------------------
\* -------------------------------------------------------- the wallet bridge
\* usernode-bridge.js: callNative registers a call in the table pending and
\* posts it to the native side, which answers through __usernodeResolve.

MaxCalls == 3
MaxResolves == 3

\* The id of a call (line 28): the time in milliseconds and the hex digits
\* of Math.random(). The ids of different calls are taken to differ: call n
\* has the id n. No call has the id UnknownId.
CallIds == 1..MaxCalls
UnknownId == 0
NewId == made + 1

\* The argument error of __usernodeResolve: absent, or a message.
NoError == ""
Errors == {NoError, "denied"}

\* resolve and reject of a promise act on a pending promise only.
Settle(state, outcome) == IF state = "pending" THEN outcome ELSE state
Settled(state, outcome) == IF state = "pending" THEN 1 ELSE 0

InitBridgeWith(native) ==
  /\ isNative = native
  /\ pending = {}
  /\ made = 0
  /\ promises = [id \in CallIds |-> "none"]
  /\ settlings = [id \in CallIds |-> 0]
  /\ posted = {}
  /\ resolves = 0
  /\ lastResolve = [id |-> UnknownId, error |-> NoError]

InitBridge == \E native \in BOOLEAN : InitBridgeWith(native)
BridgeIdle == InitBridgeWith(FALSE)

\* callNative(method, args), lines 27-38. The executor enters the call in
\* pending first. Without the native bridge it deletes the entry and
\* rejects. With it, it serialises the message and posts it; when
\* JSON.stringify or postMessage throws (args that hold a BigInt or a
\* cycle), the constructor of the promise rejects the promise with what was
\* thrown, after the entry was made.
callNative(posts) ==
  /\ made < MaxCalls
  /\ made' = NewId
  /\ IF ~isNative
       THEN /\ pending' = (pending \cup {NewId}) \ {NewId}
            /\ promises' = [promises EXCEPT ![NewId] = "rejected"]
            /\ settlings' = [settlings EXCEPT ![NewId] = 1]
            /\ posted' = posted
       ELSE /\ pending' = pending \cup {NewId}
            /\ IF posts
                 THEN /\ posted' = posted \cup {NewId}
                      /\ promises' = [promises EXCEPT ![NewId] = "pending"]
                      /\ settlings' = settlings
                 ELSE /\ posted' = posted
                      /\ promises' = [promises EXCEPT ![NewId] = "rejected"]
                      /\ settlings' = [settlings EXCEPT ![NewId] = 1]
  /\ UNCHANGED <<isNative, resolves, lastResolve>>
  /\ UNCHANGED besidesBridge

\* window.__usernodeResolve(id, value, error), lines 19-25.
usernodeResolve(id, err) ==
  /\ resolves < MaxResolves
  /\ resolves' = resolves + 1
  /\ lastResolve' = [id |-> id, error |-> err]
  /\ IF id \notin pending
       THEN UNCHANGED <<pending, promises, settlings>>
       ELSE LET outcome == IF err # NoError THEN "rejected" ELSE "resolved"
            IN /\ pending' = pending \ {id}
               /\ promises' =
                    [promises EXCEPT ![id] = Settle(promises[id], outcome)]
               /\ settlings' =
                    [settlings EXCEPT
                      ![id] = @ + Settled(promises[id], outcome)]
  /\ UNCHANGED <<isNative, made, posted>>
  /\ UNCHANGED besidesBridge

NextBridge ==
  \/ \E posts \in BOOLEAN : callNative(posts)
  \/ \E id \in CallIds \cup {UnknownId}, err \in Errors :
       usernodeResolve(id, err)

----------------------------------------------------------------------------
\* ---------------------------------------------------------- specifications

vars ==
  <<researchVars, searchVars, runVars, voteVars, imageVars, suggestVars,
    parseVars, pageVars, botVars, bridgeVars>>

Init ==
  /\ InitResearch /\ InitSearch /\ VoteIdle /\ ImageIdle /\ SuggestIdle
  /\ ParseIdle /\ InitRuns /\ InitPage /\ InitBot /\ BridgeIdle

\* One decision with its research run.
Spec == Init /\ [][NextResearch]_vars

\* The same, where every awaited call is answered.
FairSpec == Spec /\ WF_vars(NextResearch)

\* The Search Tool under concurrent callers, for one configuration.
SearchInit ==
  /\ InitResearch /\ maxResearchSteps = MaxSteps /\ canSearch
  /\ InitSearch /\ VoteIdle /\ ImageIdle /\ SuggestIdle /\ ParseIdle
  /\ InitRuns /\ InitPage /\ InitBot /\ BridgeIdle

SearchSpec == SearchInit /\ [][NextSearch]_vars

\* The Search Tool with one caller, whose calls follow one another; the
\* clock starts SoloLead ticks earlier, which leaves time for all retries.
Solo == "runA"
SoloLead == 8

NextSolo ==
  \/ \E q \in Queries : SearchCall(Solo, q)
  \/ PacingWake(Solo)
  \/ \E resp \in Responses : Respond(Solo, resp)
  \/ BackoffWake(Solo)
  \/ Tick

SoloInit ==
  /\ InitResearch /\ maxResearchSteps = MaxSteps /\ canSearch
  /\ lastSearchMs = 0
  /\ clock = StartMs - SoloLead * TickMs
  /\ spc = [c \in Callers |-> "idle"]
  /\ wakeAt = [c \in Callers |-> 0]
  /\ attempt = [c \in Callers |-> 0]
  /\ squery = [c \in Callers |-> <<>>]
  /\ sret = [c \in Callers |-> 0]
  /\ sstatus = [c \in Callers |-> "none"]
  /\ ncalls = 0
  /\ lastBegin = -1
  /\ beginGap = -1
  /\ lastRequest = -1
  /\ requestGap = -1
  /\ nrequests = [c \in Callers |-> 0]
  /\ VoteIdle /\ ImageIdle /\ SuggestIdle /\ ParseIdle
  /\ InitRuns /\ InitPage /\ InitBot /\ BridgeIdle

SoloSpec == SoloInit /\ [][NextSolo]_vars

\* chooseVote's ladder, for every option list and reply.
VoteInit ==
  /\ InitResearch /\ maxResearchSteps = MaxSteps /\ canSearch
  /\ InitSearch /\ InitVote /\ ImageIdle /\ SuggestIdle /\ ParseIdle
  /\ InitRuns /\ InitPage /\ InitBot /\ BridgeIdle

VoteSpec == VoteInit /\ [][NextVote]_vars

\* generateImage, for every configuration of the image backend.
ImageInit ==
  /\ InitResearch /\ maxResearchSteps = MaxSteps /\ canSearch
  /\ InitSearch /\ VoteIdle /\ InitImage /\ SuggestIdle /\ ParseIdle
  /\ InitRuns /\ InitPage /\ InitBot /\ BridgeIdle

ImageSpec == ImageInit /\ [][NextImage]_vars

\* suggestOption's parse of the reply, for both implementations and with
\* and without image generation.
SuggestInit ==
  /\ InitResearch /\ maxResearchSteps = MaxSteps /\ canSearch
  /\ InitSearch /\ VoteIdle /\ InitSuggest /\ ParseIdle
  /\ InitRuns /\ InitPage /\ InitBot /\ BridgeIdle
  /\ llmConfig = [provider |-> "openai", imageProvider |-> Unset]
  /\ renderProvider = "null"
  /\ imgBackend = "openai-compat"
  /\ canGenerateImages \in BOOLEAN
  /\ imageStoreURL = FALSE
  /\ ipc = "idle"
  /\ imgResult = "none"
  /\ imgRequests = <<>>
  /\ imgOutcome = "none"
  /\ imgRender = NoRender

SuggestSpec == SuggestInit /\ [][NextSuggest]_vars

\* _parseJsonCommand on a command text and on a reply wrapping it.
ParseInit ==
  /\ InitResearch /\ maxResearchSteps = MaxSteps /\ canSearch
  /\ InitSearch /\ VoteIdle /\ ImageIdle /\ SuggestIdle /\ InitParse
  /\ InitRuns /\ InitPage /\ InitBot /\ BridgeIdle

ParseSpec == ParseInit /\ [][NextParse]_vars

\* Two research runs at a time on one LLM object and one Search Tool.
RunsSpec == SearchInit /\ [][NextRuns]_vars

\* fetchPage, for pages whose text is near MAX_PAGE_CHARS characters.
PageSpec == SearchInit /\ [][NextPage]_vars

\* The bot's poll cycles over the active surveys.
BotInit ==
  /\ InitResearch /\ maxResearchSteps = MaxSteps /\ canSearch
  /\ InitSearch /\ VoteIdle /\ ImageIdle /\ SuggestIdle /\ ParseIdle
  /\ InitRuns /\ InitPage /\ BridgeIdle
  /\ \E earlier \in EarlierVotes : InitBotAfter(earlier)

BotSpec == BotInit /\ [][NextBot]_vars

\* The native calls of one page and the answers of the native side.
BridgeInit ==
  /\ InitResearch /\ maxResearchSteps = MaxSteps /\ canSearch
  /\ InitSearch /\ VoteIdle /\ ImageIdle /\ SuggestIdle /\ ParseIdle
  /\ InitRuns /\ InitPage /\ InitBot /\ InitBridge

BridgeSpec == BridgeInit /\ [][NextBridge]_vars

----------------------------------------------------------------------------
\* ------------------------------------------------------------- properties

CountIn(log, kind) == Cardinality({i \in 1..Len(log) : log[i].kind = kind})
CountCalls(kind) == CountIn(calls, kind)
CountMsgs(kind) == CountIn(messages, kind)
KindsOf(log) == [i \in 1..Len(log) |-> log[i].kind]

ToolCalls == CountCalls("search") + CountCalls("fetchPage")
RunOver == rpc \in {"returned", "raised"}
Running == rpc \in {"loop_chat", "nudge_chat", "search", "read", "final_chat"}

\* The replies of Replies that are search commands, and those in which the
\* command parser finds no command (by hand, from the parser's rules).
SearchReplies == {SearchCmd, FencedSearch}
NoCommandReplies == {ProseReply, EssayReply, EmptyReply, SummaryOnly}

\* What the last reply yields (by hand, from llm.js 311-316): its summary
\* where the text from the first to the last brace is an object with one,
\* else the reply itself; 1500 characters of it at most.
ExpectedFinal(text) ==
  IF text \in {DoneBrief, SummaryOnly, ProseThenDone}
    THEN [kind |-> "word", w |-> "brief", toks |-> <<>>, len |-> 5]
  ELSE IF text = DoneReport
    THEN [kind |-> "word", w |-> "report", toks |-> <<>>, len |-> SUMMARY_MAX]
  ELSE [kind |-> "text", w |-> "", toks |-> text,
        len |-> IF TextLen(text) > SUMMARY_MAX THEN SUMMARY_MAX
                                               ELSE TextLen(text)]

\* C1: a run makes at most maxResearchSteps loop turns (completions asked
\* for by the loop) and at most maxResearchSteps search and read dispatches,
\* whatever the model replies; the forcing completion comes after them.
C1_StepBudget ==
  /\ CountCalls("chat_loop") <= maxResearchSteps
  /\ ToolCalls <= maxResearchSteps
  /\ step <= maxResearchSteps
  /\ \A i, j \in 1..Len(calls) :
       calls[i].kind = "chat_final" /\ calls[j].kind \in {"chat_loop", "search", "fetchPage"}
         => j < i

C1_BudgetSpent ==
  /\ maxResearchSteps >= 2
  /\ CountCalls("chat_loop") = maxResearchSteps
  /\ ToolCalls = maxResearchSteps
  /\ rpc = "final_chat"

\* C3 (as claimed): a failed completion never makes research() throw, and
\* once research() is over the decision function has made its own
\* completion call.
C3_ResearchNeverFailsDecision ==
  /\ error # "ProviderError"
  /\ RunOver => CountCalls("chat_decision") = 1

\* C4: every research run that was started eventually ends (it returns, or
\* it ends with the exception of C3 or of a mistyped url), when every call
\* it awaits is answered.
C4_RunEnds == Running ~> RunOver

C4_EndedByExhaustion ==
  /\ rpc = "returned"
  /\ maxResearchSteps >= 2
  /\ step = maxResearchSteps
  /\ CountCalls("chat_final") = 1
  /\ finalResp \in SearchReplies

\* C5: with maxResearchSteps = 2 and a model that answers every completion
\* with a search command, the run asks for a completion, searches, asks,
\* searches, appends the forcing message, asks once more and returns the
\* last reply (cut to 1500 characters); it never searches a third time.
C5_AlwaysSearch ==
  /\ canSearch
  /\ maxResearchSteps = 2
  /\ \A i \in 1..Len(messages) :
       messages[i].role = "assistant" => messages[i].body \in SearchReplies
  /\ rpc = "returned" => finalResp \in SearchReplies

C5_TwoSearchesThenForce ==
  C5_AlwaysSearch =>
    /\ CountCalls("search") <= 2
    /\ rpc = "returned" =>
         /\ KindsOf(calls) = <<"chat_loop", "search", "chat_loop", "search",
                               "chat_final", "chat_decision">>
         /\ messages[Len(messages)].kind = "force"
         /\ CountMsgs("force") = 1
         /\ result.kind = "text" /\ result.toks = finalResp
         /\ result.len = TextLen(finalResp)

C5_ScenarioRan == C5_AlwaysSearch /\ rpc = "returned" /\ finalResp = SearchCmd

\* C6: what research() returns has at most 1500 characters on every path,
\* and a done summary longer than that comes back cut to 1500.
C6_BoundedSummary ==
  /\ result.len <= SUMMARY_MAX
  /\ ( /\ rpc = "returned"
       /\ CountCalls("chat_final") = 0
       /\ response = DoneReport )
       => /\ result.kind = "word" /\ result.w = "report"
          /\ result.len = SUMMARY_MAX

C6_LongSummaryCut ==
  /\ rpc = "returned"
  /\ CountCalls("chat_final") = 0
  /\ response = DoneReport
  /\ WordLen("report") > SUMMARY_MAX

\* C7: the nudge is sent at most once, only right after an unrecognized
\* first reply; one completion follows it, and when its reply is again
\* unrecognized the run returns that reply (cut), with no search, no read
\* and no forcing message.
NudgeAt == {i \in 1..Len(messages) : messages[i].kind = "nudge"}

C7_SingleNudge ==
  /\ Cardinality(NudgeAt) <= 1
  /\ CountCalls("chat_nudge") = Cardinality(NudgeAt)
  /\ \A i \in NudgeAt :
       /\ i = 4
       /\ messages[3].role = "assistant"
       /\ messages[3].body \in NoCommandReplies
       /\ KindsOf(SubSeq(calls, 1, 2)) = <<"chat_loop", "chat_nudge">>
  /\ ( /\ NudgeAt # {}
       /\ Len(messages) >= 5
       /\ messages[5].body \in NoCommandReplies )
       => /\ rpc = "returned"
          /\ Len(messages) = 5
          /\ result.kind = "text" /\ result.toks = messages[5].body
          /\ result.len = Min(TextLen(messages[5].body), SUMMARY_MAX)
          /\ KindsOf(calls) = <<"chat_loop", "chat_nudge", "chat_decision">>

C7_NudgedTwiceUnrecognized ==
  /\ NudgeAt # {}
  /\ Len(messages) = 5
  /\ messages[5].body = EssayReply
  /\ rpc = "returned"

\* C8: when the loop ran out of steps, one forcing message is appended as
\* the last message, one completion follows, and the run returns the
\* summary of that reply, or the reply cut when it has none; no search and
\* no read follows the forcing message.
ForceAt == {i \in 1..Len(messages) : messages[i].kind = "force"}

C8_Exhausted ==
  /\ Cardinality(ForceAt) <= 1
  /\ CountCalls("chat_final") = Cardinality(ForceAt)
  /\ \A i \in ForceAt : i = Len(messages) /\ messages[i].role = "user"
  /\ (ForceAt # {} /\ ~gaveUp) =>
       step = maxResearchSteps /\ CountCalls("chat_loop") = maxResearchSteps
  /\ (canSearch /\ rpc # "idle" /\ step = maxResearchSteps) => ForceAt # {}
  /\ \A i, j \in 1..Len(calls) :
       (calls[i].kind = "chat_final" /\ i < j) => calls[j].kind = "chat_decision"
  /\ (rpc = "returned" /\ ForceAt # {}) => result = ExpectedFinal(finalResp)

C8_ForcedSummary ==
  /\ ~gaveUp
  /\ maxResearchSteps >= 1
  /\ ForceAt # {}
  /\ rpc = "returned"
  /\ finalResp = DoneBrief

\* C9: a command with an unknown action ends the loop at that step: the
\* forcing message follows at once, nothing is thrown, and from then on the
\* run makes no loop turn, no nudge, no search and no read.
C9_UnknownActionEndsLoop ==
  [][ /\ (~gaveUp /\ gaveUp') =>
           /\ rpc' = "final_chat"
           /\ error' = "none"
           /\ step' = step
           /\ messages'[Len(messages')].kind = "force"
      /\ gaveUp =>
           /\ step' = step
           /\ messages' = messages
           /\ rpc' # "raised" \/ error' = "ProviderError"
           /\ \A k \in {"chat_loop", "chat_nudge", "search", "fetchPage"} :
                CountIn(calls', k) = CountIn(calls, k) ]_vars

C9_GaveUpEarly ==
  /\ gaveUp
  /\ step < maxResearchSteps
  /\ rpc = "returned"

\* C10: the run has at most one external call outstanding; each search or
\* read command is one Search Tool call, whose result is appended as one
\* user message before the next completion is asked for, and the step
\* counter counts exactly the calls that came back.
C10_OneCallAtATime ==
  /\ outstanding <= 1
  /\ step = ToolCalls - (IF rpc \in {"search", "read"} THEN 1 ELSE 0)
  /\ CountMsgs("results") + CountMsgs("page") = step
  /\ CountMsgs("results") =
       CountCalls("search") - (IF rpc = "search" THEN 1 ELSE 0)
  /\ \A i \in 1..Len(messages) :
       messages[i].kind \in {"results", "page"} =>
         /\ messages[i].role = "user"
         /\ messages[i - 1].role = "assistant"
  /\ \A i \in 1..(Len(calls) - 1) :
       calls[i].kind \in {"search", "fetchPage"} =>
         calls[i + 1].kind \in {"chat_loop", "chat_final"}

C10_SearchedAndRead ==
  /\ step = 2
  /\ CountCalls("search") = 1
  /\ CountCalls("fetchPage") = 1
  /\ CountMsgs("results") = 1
  /\ CountMsgs("page") = 1

\* C2 (as claimed): no two search calls begin less than BASE_DELAY_MS apart.
C2_BeginsPaced == beginGap = -1 \/ beginGap >= BASE_DELAY_MS

\* C11: without search tools research() returns the empty string at once:
\* no conversation, no completion, no search, no page fetch; the only call
\* of the decision function is its own completion.
C11_NoToolsNoResearch ==
  ~canSearch =>
    /\ messages = <<>> /\ step = 0 /\ response = <<>> /\ finalResp = <<>>
    /\ result = EmptyString
    /\ error = "none"
    /\ rpc \in {"idle", "returned"}
    /\ IF dpc = "idle" THEN calls = <<>> /\ outstanding = 0
       ELSE /\ rpc = "returned"
            /\ KindsOf(calls) = <<"chat_decision">>
            /\ outstanding = (IF dpc = "chat" THEN 1 ELSE 0)

C11_DecidedWithoutResearch ==
  /\ ~canSearch
  /\ maxResearchSteps >= 1
  /\ dfn = "suggestOption"
  /\ dpc = "returned"

\* A call of the only caller passes the pacing step now (it arrived and did
\* not have to wait, or its wait is over).
SoloStarts ==
  \/ spc[Solo] = "idle" /\ ncalls' = ncalls + 1 /\ spc'[Solo] # "pacing"
  \/ spc[Solo] = "pacing" /\ spc'[Solo] # "pacing"

\* C12: with one caller whose calls follow one another, a call starts at
\* least BASE_DELAY_MS after the start of the call before it; a call that
\* arrives sooner sleeps for what is left of the interval.
C12_BackToBackPacing ==
  /\ [](beginGap = -1 \/ beginGap >= BASE_DELAY_MS)
  /\ [][ /\ SoloStarts =>
              /\ clock - lastSearchMs >= BASE_DELAY_MS
              /\ lastSearchMs' = clock
         /\ (spc[Solo] = "idle" /\ spc'[Solo] = "pacing") =>
              /\ clock - lastSearchMs < BASE_DELAY_MS
              /\ wakeAt'[Solo] = lastSearchMs + BASE_DELAY_MS
              /\ lastSearchMs' = lastSearchMs ]_vars

C12_WaitsTheRest ==
  /\ spc[Solo] = "pacing"
  /\ lastBegin >= 0
  /\ wakeAt[Solo] - clock = TickMs
  /\ clock - lastSearchMs = BASE_DELAY_MS - TickMs

\* The waits before the first, second and third retry.
ExpectedBackoff(k) == CASE k = 1 -> 1200 [] k = 2 -> 2400 [] k = 3 -> 4800

\* The request of the only caller is answered now.
SoloAnswered == spc[Solo] = "fetching" /\ spc'[Solo] # "fetching"

\* C13: a call sends at most MAX_RETRIES + 1 requests; it retries only
\* after a 429 answer, the k-th retry after a wait of BASE_DELAY_MS *
\* 2^(k-1); any other answer ends the call, and so does the 429 answer to
\* the last request, with an empty result.
C13_RetryPolicy ==
  /\ [](/\ nrequests[Solo] <= MAX_RETRIES + 1
        /\ attempt[Solo] <= MAX_RETRIES
        /\ spc[Solo] = "backoff" =>
             sstatus[Solo] = "limited" /\ attempt[Solo] = nrequests[Solo])
  /\ [][ /\ (SoloAnswered /\ spc'[Solo] = "backoff") =>
              /\ sstatus'[Solo] = "limited"
              /\ nrequests[Solo] <= MAX_RETRIES
              /\ wakeAt'[Solo] - clock = ExpectedBackoff(nrequests[Solo])
         /\ (nrequests[Solo] >= 1 /\ nrequests'[Solo] > nrequests[Solo]) =>
              /\ spc[Solo] = "backoff"
              /\ clock >= wakeAt[Solo]
              /\ nrequests'[Solo] = nrequests[Solo] + 1
         /\ (SoloAnswered /\ sstatus'[Solo] # "limited") =>
              spc'[Solo] = "idle" /\ nrequests' = nrequests
         /\ (SoloAnswered /\ sstatus'[Solo] = "limited") =>
              IF nrequests[Solo] <= MAX_RETRIES
                THEN spc'[Solo] = "backoff"
                ELSE spc'[Solo] = "idle" /\ sret'[Solo] = 0 ]_vars

C13_LimitedToTheEnd ==
  /\ spc[Solo] = "idle"
  /\ nrequests[Solo] = MAX_RETRIES + 1
  /\ sstatus[Solo] = "limited"
  /\ sret[Solo] = 0

\* C14: search() always returns a result sequence: the empty one when a
\* request failed, when the retries ran out and when the query was empty
\* after sanitizing, and at most maxResults results otherwise.
C14_SearchDegrades ==
  \A c \in Callers :
    /\ spc[c] \in {"idle", "pacing", "fetching", "backoff"}
    /\ sret[c] \in 0..MaxResults
    /\ spc[c] = "idle" =>
         /\ sstatus[c] \in {"failed", "limited"} => sret[c] = 0
         /\ nrequests[c] = 0 => sret[c] = 0

C14_FailedSearchIsEmpty ==
  \E c \in Callers :
    /\ spc[c] = "idle"
    /\ nrequests[c] >= 1
    /\ sstatus[c] = "failed"
    /\ sret[c] = 0

\* C15: whatever became of the page request, fetchPage returns a text, and
\* research() appends it as a user message and goes on to its next step
\* (the next completion, or the forcing message), for a placeholder as for
\* a page.
C15_UnreadablePageIsText ==
  [][ (rpc = "read" /\ rpc' # "read") =>
        /\ error' = "none"
        /\ step' = step + 1
        /\ rpc' = (IF step + 1 < maxResearchSteps THEN "loop_chat"
                                                  ELSE "final_chat")
        /\ \E outcome \in PageOutcomes :
             SubSeq(messages', 1, Len(messages) + 1) =
               Append(messages, Message("user", "page", fetchPage(outcome))) ]_vars

C15_WentOnAfterTimeout ==
  /\ rpc = "loop_chat"
  /\ step >= 1
  /\ messages[Len(messages)] = Message("user", "page", fetchPage("timeout"))

\* The reply as the ladder reads it, and the three ways an option can match
\* it, written out character by character.
Cleaned == SelectSeq(voteReply, LAMBDA c : c \notin QuoteChars)

EqualsIgnoringCase(x, y) ==
  Len(x) = Len(y) /\ \A i \in 1..Len(x) : LowerChar(x[i]) = LowerChar(y[i])

ContainsIgnoringCase(x, sub) ==
  \E k \in 0..(Len(x) - Len(sub)) :
    \A i \in 1..Len(sub) : LowerChar(x[k + i]) = LowerChar(sub[i])

OnRung(rung, o, text) ==
  CASE rung = 1 -> o.key = text
    [] rung = 2 -> EqualsIgnoringCase(text, o.key) \/ EqualsIgnoringCase(text, o.label)
    [] rung = 3 -> ContainsIgnoringCase(text, o.key) \/ ContainsIgnoringCase(text, o.label)

RungReached ==
  IF \E i \in 1..Len(options) : OnRung(1, options[i], Cleaned) THEN 1
  ELSE IF \E i \in 1..Len(options) : OnRung(2, options[i], Cleaned) THEN 2
  ELSE IF \E i \in 1..Len(options) : OnRung(3, options[i], Cleaned) THEN 3
  ELSE 4

FirstOnRung(rung) ==
  CHOOSE i \in 1..Len(options) :
    /\ OnRung(rung, options[i], Cleaned)
    /\ \A j \in 1..(i - 1) : ~OnRung(rung, options[j], Cleaned)

\* C16: for a non-empty option list chooseVote returns, for every reply, the
\* key of one of the options, never null.
C16_VoteIsAnOption ==
  (vpc = "returned" /\ options # <<>>) =>
    /\ ~vote.isNull
    /\ \E i \in 1..Len(options) : options[i].key = vote.key

C16_FellBackToFirst ==
  /\ vpc = "returned"
  /\ Len(options) = 2
  /\ RungReached = 4
  /\ vote.key = options[1].key
  /\ options[2].key # options[1].key

\* C17: on the reply without its quote characters the ladder is tried in
\* order: exact key, equality with a key or label ignoring case, a key or
\* label contained in the reply (ignoring case), the first option; the
\* first rung that any option matches decides, and on it the first option
\* in list order that matches.
C17_LadderInOrder ==
  (vpc = "returned" /\ options # <<>>) =>
    vote = Voted(IF RungReached = 4 THEN options[1].key
                 ELSE options[FirstOnRung(RungReached)].key)

C17_EarlierRungWins ==
  /\ vpc = "returned"
  /\ Len(options) = 2
  /\ RungReached = 2
  /\ OnRung(3, options[1], Cleaned) /\ ~OnRung(2, options[1], Cleaned)
  /\ OnRung(2, options[2], Cleaned)
  /\ options[1].key # options[2].key
  /\ vote.key = options[2].key

\* An option that the reply as it came names: the reply equals, equals
\* ignoring case, or contains the option's key or label.
Names(text, o) ==
  \/ text = o.key \/ text = o.label
  \/ EqualsIgnoringCase(text, o.key) \/ EqualsIgnoringCase(text, o.label)
  \/ ContainsIgnoringCase(text, o.key) \/ ContainsIgnoringCase(text, o.label)

\* C18 (as claimed): when the reply names options, chooseVote returns the
\* key of an option it names; when it names none, the first option's key.
C18_NamedOptionWins ==
  (vpc = "returned" /\ options # <<>>) =>
    IF \E i \in 1..Len(options) : Names(voteReply, options[i])
      THEN \E i \in 1..Len(options) :
             Names(voteReply, options[i]) /\ vote = Voted(options[i].key)
      ELSE vote = Voted(options[1].key)

ImageFailures == {"rejects", "not ok", "no json", "no data"}
ImageCalls == Cardinality({i \in 1..Len(imgRequests) : imgRequests[i] = "call"})

\* C19: generateImage never throws: with each backend a request that is
\* rejected or answered with an error (the rewrite completion and the
\* upload among them) makes it return null, and so does a configuration
\* without image generation, which sends no request.
C19_ImageNeverThrows ==
  /\ ipc # "raised"
  /\ imgResult \in {"none", "null", "undefined", "provider url", "stored url"}
  /\ ipc = "returned" => imgResult # "none"
  /\ (ipc = "returned" /\ imgOutcome \in ImageFailures) => imgResult = "null"
  /\ ~canGenerateImages =>
       /\ imgResult \in {"none", "null"}
       /\ Len(imgRequests) = ImageCalls

C19_UploadFailureIsNull ==
  /\ ipc = "returned"
  /\ imgBackend = "gemini-native"
  /\ imgRequests[Len(imgRequests)] = "upload"
  /\ imgOutcome = "rejects"
  /\ imgResult = "null"

\* C20: with the native-REST backend and no image store generateImage
\* returns null and sends no upload; it returns no url of any kind.
C20_NoStoreNoUpload ==
  (imgBackend = "gemini-native" /\ ~imageStoreURL) =>
    /\ \A i \in 1..Len(imgRequests) : imgRequests[i] # "upload"
    /\ ipc # "upload"
    /\ imgResult \in {"none", "null"}

C20_ImageWithoutStore ==
  /\ imgBackend = "gemini-native"
  /\ ~imageStoreURL
  /\ canGenerateImages
  /\ ipc = "returned"
  /\ imgOutcome = "image"
  /\ imgResult = "null"

\* The requests of the current call of generateImage, in order.
CurrentRequests ==
  LET at == {i \in 1..Len(imgRequests) : imgRequests[i] = "call"}
  IN IF at = {} THEN <<>>
     ELSE SubSeq(imgRequests, (CHOOSE i \in at : \A j \in at : j <= i) + 1,
                 Len(imgRequests))

RenderSent == \E i \in 1..Len(CurrentRequests) : CurrentRequests[i] = "images.generate"

\* C21: with the refine-then-delegate backend the rewrite completion is the
\* first request of a call; the image request follows only once the
\* completion has returned, goes to the render client and carries the
\* refined text as its prompt, never the description; a failed rewrite
\* completion ends the call with null and no image request.
C21_RefineThenRender ==
  /\ [](imgBackend = "anthropic-refine" =>
         /\ CurrentRequests \in {<<>>, <<"chat">>, <<"chat", "images.generate">>}
         /\ ipc = "refine" => ~RenderSent /\ imgRender = NoRender
         /\ RenderSent =>
              /\ imgRender.client = "renderClient"
              /\ imgRender.prompt \in {"refined", ""}
         /\ ipc = "render" => imgRender.prompt = RefinedPrompt(imgOutcome))
  /\ [][imgBackend = "anthropic-refine" =>
         /\ (~RenderSent /\ RenderSent') =>
              ipc = "refine" /\ imgOutcome' \in {"prompt", "empty prompt"}
         /\ (ipc = "refine" /\ imgOutcome' = "rejects") =>
              /\ imgRequests' = imgRequests
              /\ ipc' = "returned"
              /\ imgResult' = "null"]_vars

C21_RenderedTheRefinedText ==
  /\ imgBackend = "anthropic-refine"
  /\ ipc = "returned"
  /\ imgResult = "provider url"
  /\ CurrentRequests = <<"chat", "images.generate">>
  /\ imgRender = RenderWith("renderClient", "refined")

\* The first balanced object of a text of the flat grammar: from an opening
\* brace to the next closing brace, where that text is JSON.
ClosingOf(text, p) ==
  LET after == {q \in (p + 1)..Len(text) : TokBraces(text[q]) # <<>>}
  IN IF after = {} THEN 0 ELSE CHOOSE q \in after : \A r \in after : q <= r

IsObjectAt(text, p) ==
  /\ text[p] = LB
  /\ ClosingOf(text, p) # 0
  /\ text[ClosingOf(text, p)] = RB
  /\ JsonParse(SubSeq(text, p, ClosingOf(text, p))).ok

ObjectsIn(text) == {p \in 1..Len(text) : IsObjectAt(text, p)}

FirstObject(text) ==
  LET p == CHOOSE p \in ObjectsIn(text) : \A r \in ObjectsIn(text) : p <= r
  IN JsonParse(SubSeq(text, p, ClosingOf(text, p))).v

\* C22: suggestOption returns the fields of the first balanced JSON object
\* of the reply, whatever text stands before or after that object.
C22_FirstObjectParsed ==
  (sugPc = "returned" /\ ObjectsIn(sugReply) # {}) =>
    suggestion = SuggestParsed(sugImpl, FirstObject(sugReply))

\* The scenario of C22: prose, then the object.
C22_ScenarioHolds ==
  (sugPc = "returned"
     /\ sugReply = <<PROSE("ok here's one:"), WS>> \o DarkMode) =>
    /\ suggestion.label = FromWord("Add dark mode")
    /\ ~suggestion.wantsImage
    /\ suggestion.imageDescription = EmptyString

\* C23: a reply without a parseable JSON object never makes suggestOption
\* throw; it returns the reply itself, cut to the label cap, as the label,
\* with wantsImage false and an empty imageDescription.
C23_UnparseableReplyIsLabel ==
  /\ sugError # "SyntaxError"
  /\ (sugPc = "returned" /\ ObjectsIn(sugReply) = {}) =>
       /\ suggestion.label.kind = "text"
       /\ suggestion.label.toks = sugReply
       /\ suggestion.label.len =
            Min(TextLen(sugReply), IF sugImpl = "cis" THEN 200 ELSE 80)
       /\ ~suggestion.wantsImage
       /\ suggestion.imageDescription = EmptyString

C23_BrokenObjectFellBack ==
  /\ sugPc = "returned"
  /\ sugReply = <<LB, PROSE("I think"), RB>>
  /\ suggestion.label = FromText(sugReply)
  /\ ~suggestion.wantsImage

\* C24: whatever the reply, the label suggestOption returns has at most 200
\* characters in llm.js and at most 80 in falling-sands/server.js.
C24_LabelCapped ==
  suggestion.label.len <= (IF sugImpl = "cis" THEN 200 ELSE 80)

C24_LongLabelCut ==
  /\ sugPc = "returned"
  /\ sugImpl = "cis"
  /\ sugReply = Suggested(STR("report"), "false", "")
  /\ suggestion.label.w = "report"
  /\ suggestion.label.len = 200

\* C25: every reply is decoded to a search, read or done command or to no
\* command, a reply that is no JSON or has no action field to no command;
\* and no reply, whatever the types of its query, url and summary fields,
\* makes research() throw.
C25_RepliesDecodeSafely ==
  /\ error # "TypeError"
  /\ response \in NoCommandReplies => _parseJsonCommand(response).isNull
  /\ rpc = "search" => IsAction(_parseJsonCommand(response), "search")
  /\ rpc = "read" => IsAction(_parseJsonCommand(response), "read")

\* C26: for every command object, the parser returns for its text inside
\* code fences, or after some prose, the command it returns for the text
\* alone.
C26_WrappingIsTransparent ==
  parsedSet = {"wrapped", "bare"} => cmdWrapped = cmdBare

\* The part of C26 that holds: code fences alone never change the command.
C26_FencesAreTransparent ==
  (parsedSet = {"wrapped", "bare"} /\ wrapping \in {"fence json", "fence"}) =>
    cmdWrapped = cmdBare

IsPrefix(a, b) == Len(a) <= Len(b) /\ SubSeq(b, 1, Len(a)) = a

\* A completion of the loop returns its reply in this step.
ReplyArrives ==
  /\ rpc \in {"loop_chat", "nudge_chat"}
  /\ ~(error = "none" /\ error' = "ProviderError")

\* C27: the conversation of a research run only grows at its end: its
\* messages are never removed, reordered or changed; it starts with the
\* system prompt and the topic prompt; and the reply of every completion of
\* the loop is in it, as an assistant message, when the reply is acted on.
C27_ConversationAppendOnly ==
  /\ [](messages # <<>> =>
         /\ Len(messages) >= 2
         /\ messages[1] = Message("system", "system", <<>>)
         /\ messages[2] = Message("user", "topic", <<>>))
  /\ [][/\ IsPrefix(messages, messages')
        /\ ReplyArrives =>
             /\ Len(messages') > Len(messages)
             /\ messages'[Len(messages) + 1] =
                  Message("assistant", "reply", response')]_vars

C27_GrewToTheForce ==
  /\ rpc = "returned"
  /\ Len(messages) >= 6
  /\ messages[3].role = "assistant"
  /\ messages[4].kind = "nudge"
  /\ messages[Len(messages)].kind = "force"

\* What an invocation of research() and of search() keeps to itself.
LocalsOf(r) ==
  <<conv[r], runPc[r], runStep[r], spc[r], wakeAt[r], attempt[r], squery[r],
    sret[r]>>

\* C28: with research runs under way at the same time, the conversation of
\* a run holds only messages that run created and is gone once the run has
\* ended; a step of one run changes nothing another run keeps, so that what
\* one run writes and another reads is the pacing timestamp alone.
C28_RunsShareOnlyPacing ==
  /\ [](\A r \in Runs :
          /\ \A i \in 1..Len(conv[r]) : conv[r][i].by = r
          /\ runPc[r] \in {"idle", "returned"} => conv[r] = <<>>
          /\ runPc[r] \in {"chat", "search"} =>
               /\ Len(conv[r]) >= 2
               /\ conv[r][1].kind = "system" /\ conv[r][2].kind = "topic")
  /\ [][\A r, q \in Runs :
          (r # q /\ LocalsOf(r)' # LocalsOf(r)) => LocalsOf(q)' = LocalsOf(q)]_vars

\* Run B waits on the timestamp run A wrote, each with its own conversation.
C28_WaitsOnTheOthersStamp ==
  /\ runPc["runA"] = "search" /\ spc["runA"] = "fetching"
  /\ runPc["runB"] = "search" /\ spc["runB"] = "pacing"
  /\ lastSearchMs = lastBegin
  /\ wakeAt["runB"] = lastSearchMs + BASE_DELAY_MS
  /\ Len(conv["runA"]) = 3 /\ Len(conv["runB"]) = 3

\* C29: the text fetchPage returns for a page it read has at most
\* MAX_PAGE_CHARS characters: a longer page text is cut to that budget,
\* marker included, a shorter one is returned whole and without marker.
C29_PageWithinBudget ==
  (pagePc = "returned" /\ pageResult.kind = "text") =>
    /\ pageResult.len <= MAX_PAGE_CHARS
    /\ pageResult.marker = (pageText > MAX_PAGE_CHARS)
    /\ pageText <= MAX_PAGE_CHARS => pageResult.len = pageText

\* C30: over any number of poll cycles, and however late a submitted
\* transaction shows in the list the node returns, the bot submits at most
\* one add_option transaction for a survey.
C30_OneOptionPerSurvey == \A s \in SurveyIds : sent[s] <= 1

\* C31: in a poll cycle where the bot had no option in a survey, once
\* considerAddingOption has returned and the transactions are fetched again,
\* considerVoting runs on the results computed from the list of that fetch.
C31_VotesOnRefetchedResults ==
  (botPc = "vote" /\ refetched.got) =>
    surveyResults = computeResults(refetched.list, Surveys[cur])

\* The results of the survey of the loop hold a vote of the bot, and fewer
\* than VOTE_RECONSIDER_S seconds have passed since the recorded time.
VotedNotLongAgo ==
  /\ surveyResults.voteKey # NoKey
  /\ botClock - lastVoteConsideredAt[Surveys[cur]] < VOTE_RECONSIDER_S

\* C32: when the results hold a vote of the bot and fewer than
\* VOTE_RECONSIDER_S seconds have passed since the survey was last
\* considered, considerVoting calls no chooseVote and sends no transaction;
\* the time of a survey is recorded only when chooseVote has returned, and
\* is the time of that call; a survey whose decision failed while the bot
\* had a vote is decided again in the next cycle.
C32_ReconsidersNoSooner ==
  [][/\ (botPc = "vote" /\ VotedNotLongAgo) =>
          /\ botPc' \notin {"choose", "send vote"}
          /\ botPc' # "vote" => voting'.asked = 0 /\ voting'.sentVotes = 0
          /\ votes' = votes
     /\ lastVoteConsideredAt' # lastVoteConsideredAt =>
          /\ botPc = "choose" /\ voting'.returned
          /\ lastVoteConsideredAt' =
               [lastVoteConsideredAt EXCEPT ![Surveys[cur]] = voting.now]
     /\ (/\ botPc = "vote" /\ botPc' # "vote"
         /\ cycle > 1 /\ failedRevote[Surveys[cur]] = cycle - 1) =>
          botPc' = "choose"]_vars

\* Witness of C32: in its second cycle the bot, its vote listed, has left
\* alone the first survey, which it had considered a poll interval earlier.
C32_SkippedTheSurvey ==
  /\ cycle = 2 /\ botPc = "add" /\ cur = 2
  /\ txs["s1"].voteKey # NoKey
  /\ lastVoteConsideredAt["s1"] > 0
  /\ botClock - lastVoteConsideredAt["s1"] = POLL_INTERVAL_S
  /\ voting.asked = 0

\* The other case of C32: the bot decides again on a survey, its vote
\* listed, after the decision of the cycle before failed.
C32_RetriedAfterFailure ==
  /\ cycle = 2 /\ botPc = "choose" /\ cur = 1
  /\ failedRevote["s1"] = 1
  /\ surveyResults.voteKey # NoKey

\* C33: one call of considerVoting sends at most one vote transaction; a
\* vote is sent only for a survey with options, with a key chooseVote
\* returned that is among the options and is not the bot's vote in the
\* results.
C33_OneValidVotePerCall ==
  [][/\ voting'.sentVotes <= 1
     /\ votes' # votes =>
          LET s == Surveys[cur]
              key == votes'[s][Len(votes'[s])]
          IN /\ botPc = "send vote"
             /\ votes' = [votes EXCEPT ![s] = Append(@, key)]
             /\ surveyResults.options # {}
             /\ key # NoKey
             /\ key = voting.chosenKey
             /\ key # surveyResults.voteKey
             /\ key \in surveyResults.options]_vars

\* Witness of C33: the bot, which had voted for the first option of a
\* survey, has sent one vote for the option it added.
C33_ChangedItsVote ==
  /\ botPc = "add" /\ cur = 2
  /\ votes["s1"] = <<Key("a", 0), OptionKey(1)>>
  /\ voting.returned /\ voting.sentVotes = 1

\* The completions research() has asked for.
ResearchCompletions ==
  CountCalls("chat_loop") + CountCalls("chat_nudge") + CountCalls("chat_final")

\* C34: a research run with step budget N asks for at most N + 2
\* completions: at most N by the loop, one after the nudge, one after the
\* forcing message; with N = 0 and search tools it asks for the forcing
\* completion alone and makes no Search Tool call.
C34_CompletionBudget ==
  /\ ResearchCompletions <= maxResearchSteps + 2
  /\ CountCalls("chat_loop") <= maxResearchSteps
  /\ CountCalls("chat_nudge") <= 1
  /\ CountCalls("chat_final") <= 1
  /\ (maxResearchSteps = 0 /\ canSearch /\ rpc # "idle") =>
       /\ ResearchCompletions = 1
       /\ CountCalls("chat_final") = 1
       /\ ToolCalls = 0

\* Witness of C34: a run of two steps has returned after four completions.
C34_SpentAllCompletions ==
  /\ maxResearchSteps = 2
  /\ ResearchCompletions = maxResearchSteps + 2
  /\ rpc = "returned"

\* The replies of Replies whose command has an action that is none of
\* done, search and read (by hand).
UnknownActionReplies == {DanceCmd}

\* C35: an unrecognized reply at a step after the first ends the run in
\* that step: the reply, cut to SUMMARY_MAX, is returned, and no nudge, no
\* forcing message and no completion follows; the forcing completion is
\* asked for only when the steps are used up or the action is unknown.
C35_LateUnrecognizedReplyEnds ==
  [][/\ (rpc = "loop_chat" /\ step >= 1 /\ response' \in NoCommandReplies) =>
          /\ rpc' = "returned"
          /\ result' = [kind |-> "text", w |-> "", toks |-> response',
                        len |-> Min(TextLen(response'), SUMMARY_MAX)]
          /\ messages' =
               Append(messages, Message("assistant", "reply", response'))
          /\ calls' = Append(calls, Call("chat_decision", ""))
     /\ CountIn(calls', "chat_final") > CountIn(calls, "chat_final") =>
          \/ rpc \in {"idle", "search", "read"} /\ step' = maxResearchSteps
          \/ /\ rpc \in {"loop_chat", "nudge_chat"}
             /\ response' \in UnknownActionReplies]_vars

\* Witness of C35: the second loop turn got an unrecognized reply and the
\* run returned it without nudge and without forcing completion.
C35_ReturnedTheLateReply ==
  /\ maxResearchSteps = 2 /\ step = 1
  /\ rpc = "returned"
  /\ response = EssayReply
  /\ result.len = SUMMARY_MAX
  /\ KindsOf(calls) = <<"chat_loop", "search", "chat_loop", "chat_decision">>

\* C36: every completion research() asks for is sent with a conversation
\* whose last message is a user message, and no two assistant messages
\* stand next to each other in the conversation.
C36_AlternatingConversation ==
  /\ rpc \in {"loop_chat", "nudge_chat", "final_chat"} =>
       messages[Len(messages)].role = "user"
  /\ \A i \in 1..(Len(messages) - 1) :
       ~(messages[i].role = "assistant" /\ messages[i + 1].role = "assistant")

\* Witness of C36: the forcing completion is asked for after a nudge, a
\* search and a command with an unknown action.
C36_ForcedAfterNudgeAndSearch ==
  /\ rpc = "final_chat"
  /\ gaveUp
  /\ NudgeAt # {}
  /\ CountMsgs("results") = 1

\* C37: every request a Search Tool instance sends to the search endpoint,
\* retries included, is sent at least BASE_DELAY_MS after the request the
\* instance sent before it, whatever calls arrive meanwhile.
C37_RequestsPaced == requestGap = -1 \/ requestGap >= BASE_DELAY_MS

\* The same for the requests of two callers where one is a retry: the case
\* of a call arriving while the backoff of an earlier call runs.
C37_RetryPacedAgainstOtherCalls ==
  [][(\E c \in Callers : spc[c] = "backoff" /\ spc'[c] = "fetching") =>
       (requestGap' = -1 \/ requestGap' >= BASE_DELAY_MS)]_vars

\* C38: for every provider configuration whose image backend is
\* refine-then-delegate, the render provider is set and is not anthropic,
\* its backend is the direct one, and a call of generateImage sends at most
\* one rewrite completion and then at most one image request, by the
\* render client.
C38_RefineDelegatesOnce ==
  imgBackend = "anthropic-refine" =>
    /\ renderProvider \notin {"anthropic", "null"}
    /\ PresetBackend(renderProvider) = "openai-compat"
    /\ CurrentRequests \in {<<>>, <<"chat">>, <<"chat", "images.generate">>}
    /\ RenderSent => imgRender.client = "renderClient"

\* Witness of C38: chat and images both configured for anthropic; the call
\* has sent its rewrite completion and its image request.
C38_AnthropicForBothRendered ==
  /\ llmConfig = [provider |-> "anthropic", imageProvider |-> "anthropic"]
  /\ imgBackend = "anthropic-refine"
  /\ CurrentRequests = <<"chat", "images.generate">>
  /\ ipc = "returned" /\ imgResult = "provider url"

\* C39: each native call is settled at most once; __usernodeResolve
\* settles the call of its id and removes its entry, and does nothing for
\* an id without entry; the table pending holds exactly the calls that were
\* posted and are not settled yet; without the native bridge callNative
\* rejects, posts nothing and leaves no entry.
C39_ResolveSettlesAndRemoves ==
  resolves' # resolves =>
    LET id == lastResolve'.id
        err == lastResolve'.error
    IN IF id \in pending
         THEN /\ id \notin pending'
              /\ promises'[id] =
                   IF err # NoError THEN "rejected" ELSE "resolved"
         ELSE /\ pending' = pending
              /\ promises' = promises

C39_PendingTable ==
  /\ \A id \in CallIds : settlings[id] <= 1
  /\ pending = {id \in posted : promises[id] = "pending"}
  /\ ~isNative =>
       /\ posted = {}
       /\ pending = {}
       /\ \A id \in 1..made : promises[id] = "rejected"

C39_SettledOnceExactTable ==
  /\ []C39_PendingTable
  /\ [][C39_ResolveSettlesAndRemoves]_vars

\* What holds of the bridge as it is: no promise changes its state twice,
\* every posted and unsettled call has its entry, and without the native
\* bridge nothing is posted or entered.
C39_SettledAtMostOnce ==
  /\ \A id \in CallIds : settlings[id] <= 1
  /\ {id \in posted : promises[id] = "pending"} \subseteq pending
  /\ ~isNative => posted = {} /\ pending = {}

\* An entry of a call that was rejected and never posted.
C39_EntryOfUnpostedCall ==
  \E id \in pending : id \notin posted /\ promises[id] = "rejected"

=============================================================================
